---- MODULE Spec2Model ----
(***************************************************************************)
(* Anti-abuse and reward-consistency subsystem of the SHIB Ads backend.    *)
(*                                                                         *)
(* The repository holds two revisions of /api/index.js:                    *)
(*   rev = "api" : src/api/index.js     (tokens are rows of the            *)
(*                 action_tokens table, limit-based quota reset)           *)
(*   rev = "p0"  : src/unnamed/part_000 (tokens live in the in-process     *)
(*                 Map actionIdStore, fixed-timer quota reset)             *)
(* The initial state fixes the revision; every action is guarded by it.    *)
(*                                                                         *)
(* A handler is an async function.  Every `await supabaseFetch(...)` is a  *)
(* point where other requests interleave, so a handler is a chain of       *)
(* actions: each action is the synchronous code that runs up to the next   *)
(* store call, together with that store call.  Code that touches the       *)
(* in-process Map (part_000) is synchronous and therefore atomic.          *)
(*                                                                         *)
(* Money is counted in hundredths of a unit (RATE_DEN per unit), so that   *)
(* reward * 0.05 is exact.  Time is in milliseconds.                       *)
(*                                                                         *)
(* Two scenarios bound the environment: SpecTok (both accounts fresh, all  *)
(* three commit kinds, clock jumps around the token validity window) and   *)
(* SpecQuota (account 1 near or at its quota, reward commits and           *)
(* getUserData, clock jumps around the reset interval).                    *)
(***************************************************************************)
EXTENDS Integers, Sequences, FiniteSets, TLC

\* ------------------------------------------------------------------ constants
REWARD_PER_AD == 3
\* REFERRAL_COMMISSION_RATE = 0.05 = RATE_NUM / RATE_DEN
RATE_NUM == 5
RATE_DEN == 100
DAILY_MAX_ADS == 100
DAILY_MAX_SPINS == 15
RESET_INTERVAL_MS == 6 * 60 * 60 * 1000
MIN_TIME_BETWEEN_ACTIONS_MS == 3000
ACTION_ID_EXPIRY_MS == 60000
\* setTimeout(cleanupActionIds, ACTION_ID_EXPIRY_MS + 5000)
CLEANUP_GRACE_MS == 5000
SPIN_SECTORS == <<5, 10, 15, 20, 5, 10, 15, 20>>
P0_SPIN_SECTORS == <<5, 10, 15, 20, 5>>
\* a null column / a missing timestamp (checkRateLimit reads it as time 0)
Null == 0

\* --------------------------------------------------------------------- bounds
\* clock jumps in a run of the token scenario, and of the quota scenario
MaxTokTicks == 1
MaxQuotaTicks == 2
\* requests a run receives, the prepare requests apart
MaxRequests == 2
\* tokens a run issues (one prepare request each)
MaxTokens == 2

\* clock jumps in a run of the task scenario
MaxTaskTicks == 1
\* the capacity of a task of the task scenario
MaxTaskUsers == 2

\* store calls of commission settlements that fail in a run of the referral scenario
MaxFaults == 1

\* clock jumps in a run of the ban scenario
MaxBanTicks == 1

\* requests a run of the lockout scenario receives
MaxLockRequests == 3

UserIds == {1, 2}
Procs == {1, 2}
\* the clock advances in jumps that land on both sides of a threshold: the end of the
\* validity window and the moment the cleanup timer is due; the reset interval and just after
TokenDeltas == {ACTION_ID_EXPIRY_MS, ACTION_ID_EXPIRY_MS + CLEANUP_GRACE_MS}
QuotaDeltas == {RESET_INTERVAL_MS, 1}
\* in the ban scenario the clock jumps by the reset interval
BanDeltas == {RESET_INTERVAL_MS}
\* in the task scenario the clock jumps by the cooldown
TaskDeltas == {MIN_TIME_BETWEEN_ACTIONS_MS}
\* the reward of a task of the task scenario, in units
TaskReward == 10
\* The accounts of the initial state registered at time 0 and were last active at
\* LastActive, late enough to have used up both quotas one cooldown apart.
LastActive == (DAILY_MAX_ADS + DAILY_MAX_SPINS) * MIN_TIME_BETWEEN_ACTIONS_MS
\* the initial clock: the cooldown of the initial accounts has just run out
StartTime == LastActive + MIN_TIME_BETWEEN_ACTIONS_MS

Units(n) == n * RATE_DEN

VARIABLES
    rev,                \* which revision runs: "api" or "p0"
    now,                \* Date.now()
    ticks,              \* clock jumps taken
    started,            \* requests received (bounded by MaxRequests)
    nextId,             \* stands for crypto.randomBytes(16): the next fresh id
    users,              \* table users: id -> row
    req,                \* the requests in flight: frame -> handler frame
    calls,              \* commission work a reward commit has sent off, not yet begun
    last,               \* the response sent last
    accepted,           \* history: user -> arrival of the latest commit answered with success
    actionIdStore,      \* part_000: the Map id -> {user_id, type, timestamp}
    timers,             \* part_000: due times of the pending setTimeout(cleanupActionIds)
    transactions,       \* part_000: table transactions
    withdrawals,        \* part_000: table withdrawals
    action_tokens,      \* api: table action_tokens
    commission_history, \* api: table commission_history
    withdrawal_requests,\* api: table withdrawal_requests
    consumed,           \* history: id -> number of requests whose token validation passed
    paid,               \* history: id -> number of balance updates made by requests carrying id
    okCount,            \* history: user -> kind -> successful commits since the last reset
    ledger,             \* history: user -> the balance the applied credits and debits add up to
    tasks,              \* table tasks (part_000) / dynamic_tasks (api): id -> row
    user_tasks,         \* table user_tasks (part_000) / user_tasks_completed (api)
    claimed,            \* history: <<user, task>> -> task claims answered with success
    spinCredits,        \* history: <<what the server fixed at prepare, credit>> of the spins paid
    faults              \* store calls of a commission settlement that may still fail

env == <<rev, now, ticks>>
p0Only == <<actionIdStore, timers, transactions, withdrawals>>
apiOnly == <<action_tokens, commission_history, withdrawal_requests>>
hist == <<consumed, paid, okCount, ledger>>
taskVars == <<tasks, user_tasks, claimed>>
more == <<taskVars, spinCredits, faults>>
vars == <<rev, now, ticks, started, nextId, users, req, calls, last, accepted,
          actionIdStore, timers, transactions, withdrawals, action_tokens,
          commission_history, withdrawal_requests, consumed, paid, okCount, ledger,
          tasks, user_tasks, claimed, spinCredits, faults>>

\* ------------------------------------------------------------------- helpers
Remove(f, k) == [x \in DOMAIN f \ {k} |-> f[x]]

RemoveAt(s, i) == [j \in 1..(Len(s) - 1) |-> IF j < i THEN s[j] ELSE s[j + 1]]

Max(a, b) == IF a >= b THEN a ELSE b

Abs(a) == IF a >= 0 THEN a ELSE 0 - a

\* supabaseFetch(table, 'GET', null, `?id=eq.${id}`): the array of matching rows
SelectById(table, id) == IF id \in DOMAIN table THEN <<table[id]>> ELSE <<>>

\* supabaseFetch(table, 'PATCH', payload, `?id=eq.${id}`): only the payload's columns change
Patch(table, id, payload) ==
    IF id \in DOMAIN table
    THEN [table EXCEPT ![id] = [c \in DOMAIN table[id] |->
                                   IF c \in DOMAIN payload THEN payload[c] ELSE table[id][c]]]
    ELSE table

\* balanceRead of a handler that has compared no balance
NotRead == -1

\* the local variables of a handler, and what is recorded about its run:
\*   token    what the registry held for (action_id, user_id, kind) when it was looked up:
\*            "none" (absent or of another user or kind), "stale" (older than the
\*            validity window) or "fresh"
\*   tokenOk  the handler's own token validation passed
\*   replay   a request carrying action_id had passed validation before this one arrived
\*   adsRead, spinsRead   the quota counters in the row the handler read
\*   wrote    the quota counter the handler wrote (0: none)
\*   delta    what the handler added to the balance it read (0: no balance written)
\*   reset    the quota counters the handler set back to zero: a subset of {"ads", "spins"}
\*   balanceRead   the balance in the row a withdraw handler compared the amount with
\*   done     the completion rows a task claim found for its (user, task) pair: some or none
\*   oracle   what the getChatMember call of a task claim came back with ("": not called)
\*   initData what the request carried as its identity assertion
\*   rateError  the store read behind the handler's cooldown check threw
Idle == [type |-> "idle", pc |-> "idle", user_id |-> 0, action_id |-> 0,
         action_type |-> "", amount |-> 0, binanceOk |-> FALSE, referral_id |-> 0,
         rows |-> <<>>, limits |-> <<>>, arrival |-> 0, resetNow |-> 0,
         task_id |-> 0, balanceRead |-> NotRead, channelOk |-> FALSE, done |-> FALSE,
         taskRows |-> <<>>, oracle |-> "", initData |-> "valid", rateError |-> FALSE,
         token |-> "none", tokenOk |-> FALSE, replay |-> FALSE, adsRead |-> 0,
         spinsRead |-> 0, wrote |-> 0, delta |-> 0, reset |-> {}]

Response(r, resp, tooSoon) ==
    [type |-> r.type, user_id |-> r.user_id, action_id |-> r.action_id,
     amount |-> r.amount, token |-> r.token, tokenOk |-> r.tokenOk, replay |-> r.replay,
     referral_id |-> r.referral_id, task_id |-> r.task_id, balanceRead |-> r.balanceRead,
     oracle |-> r.oracle, initData |-> r.initData, rateError |-> r.rateError,
     adsRead |-> r.adsRead, spinsRead |-> r.spinsRead, wrote |-> r.wrote,
     delta |-> r.delta, reset |-> r.reset, resp |-> resp, tooSoon |-> tooSoon]

NoResponse == Response(Idle, "", FALSE)

CommitTypes == {"watchAd", "spinResult", "withdraw"}
PrepareTypes == {"requestActionId", "preSpin"}

\* sendSuccess / sendError: the handler returns, its frame is gone, `last` shows the response
Reply(p, r, resp) ==
    LET success == resp = "ok" /\ r.type \in CommitTypes
        tooSoon == /\ success
                   /\ accepted[r.user_id] # Null
                   /\ Abs(r.arrival - accepted[r.user_id]) < MIN_TIME_BETWEEN_ACTIONS_MS
    IN  /\ req' = [req EXCEPT ![p] = Idle]
        /\ last' = Response(r, resp, tooSoon)
        /\ accepted' = IF success
                       THEN [accepted EXCEPT ![r.user_id] = Max(@, r.arrival)]
                       ELSE accepted

\* the handler goes on to its next await
Goto(p, r) ==
    /\ req' = [req EXCEPT ![p] = r]
    /\ UNCHANGED <<last, accepted>>

IsIdle(p) == req[p].pc = "idle"
\* a request is received into the first free frame (the frames are interchangeable)
FirstFree(p) == IsIdle(p) /\ \A q \in Procs : q < p => ~IsIdle(q)
CanStart(p) == FirstFree(p) /\ started < MaxRequests

\* a prepare request is received only while a fresh id is left for it
CanPrepare(p) ==
    /\ FirstFree(p)
    /\ nextId + Cardinality({q \in Procs : req[q].type \in PrepareTypes
                                           /\ req[q].action_id = 0}) <= MaxTokens

\* the ids the clients have been handed: a prepare request has answered with them
Issued == (1..(nextId - 1)) \ {req[q].action_id : q \in {x \in Procs : req[x].type \in PrepareTypes}}

\* =================================================== src/unnamed/part_000

\* generateActionId: the Map with the new entry (the id itself is nextId)
generateActionId(user_id, type) ==
    actionIdStore @@ (nextId :> [user_id |-> user_id, type |-> type, timestamp |-> now])

\* a consumeActionId that forgets to delete the entry it accepted
consumeActionId_keep(id, user_id, type) ==
    LET found == id \in DOMAIN actionIdStore
        match == found /\ actionIdStore[id].user_id = user_id /\ actionIdStore[id].type = type
        expired == match /\ now - actionIdStore[id].timestamp > ACTION_ID_EXPIRY_MS
    IN  [ok |-> match /\ ~expired,
         store |-> IF expired THEN Remove(actionIdStore, id) ELSE actionIdStore]

\* a consumeActionId that already turns a token down at the end of its validity window
consumeActionId_early(id, user_id, type) ==
    LET found == id \in DOMAIN actionIdStore
        match == found /\ actionIdStore[id].user_id = user_id /\ actionIdStore[id].type = type
        expired == match /\ now - actionIdStore[id].timestamp >= ACTION_ID_EXPIRY_MS
    IN  [ok |-> match /\ ~expired,
         store |-> IF match THEN Remove(actionIdStore, id) ELSE actionIdStore]

\* a consumeActionId that deletes whatever entry it finds
consumeActionId_greedy(id, user_id, type) ==
    LET found == id \in DOMAIN actionIdStore
        match == found /\ actionIdStore[id].user_id = user_id /\ actionIdStore[id].type = type
        expired == match /\ now - actionIdStore[id].timestamp > ACTION_ID_EXPIRY_MS
    IN  [ok |-> match /\ ~expired,
         store |-> IF found THEN Remove(actionIdStore, id) ELSE actionIdStore]

\* consumeActionId: its return value and the Map it leaves
consumeActionId(id, user_id, type) ==
    LET found == id \in DOMAIN actionIdStore
        match == found /\ actionIdStore[id].user_id = user_id /\ actionIdStore[id].type = type
        expired == match /\ now - actionIdStore[id].timestamp > ACTION_ID_EXPIRY_MS
    IN  [ok |-> match /\ ~expired,
         store |-> IF match THEN Remove(actionIdStore, id) ELSE actionIdStore]

\* what the Map holds for the token a commit presents (recorded, not used by the handlers)
P0_TokenState(id, user_id, type) ==
    IF id \notin DOMAIN actionIdStore THEN "none"
    ELSE IF actionIdStore[id].user_id # user_id \/ actionIdStore[id].type # type THEN "none"
    ELSE IF now - actionIdStore[id].timestamp <= ACTION_ID_EXPIRY_MS THEN "fresh"
    ELSE "stale"

\* a cleanup that empties the Map
cleanupActionIds_all == [id \in {} |-> actionIdStore[id]]

\* cleanupActionIds: the Map without the entries older than the validity window
cleanupActionIds ==
    [id \in {i \in DOMAIN actionIdStore :
                ~(now - actionIdStore[i].timestamp > ACTION_ID_EXPIRY_MS)} |-> actionIdStore[id]]

isCooldownActive(lastActivity) ==
    IF lastActivity = Null THEN FALSE
    ELSE (now - lastActivity) < MIN_TIME_BETWEEN_ACTIONS_MS

\* the setTimeout callback of generateActionId fires
P0_cleanupTimer ==
    /\ rev = "p0"
    /\ \E t \in timers :
         /\ now >= t
         /\ timers' = timers \ {t}
    /\ actionIdStore' = cleanupActionIds
    /\ UNCHANGED <<env, more, started, nextId, users, req, calls, last, accepted,
                   transactions, withdrawals, apiOnly, hist>>

\* the checks the handlers of part_000 make on the row they read, in their order
P0_UserError(rows) ==
    IF rows = <<>> THEN "NotFound"
    ELSE IF rows[1].is_banned THEN "Banned"
    ELSE IF isCooldownActive(rows[1].last_activity) THEN "RateLimited"
    ELSE ""

\* handleRequestActionId up to its store read
P0_handleRequestActionId_get(p, U, K) ==
    /\ rev = "p0" /\ CanPrepare(p)
    /\ \E u \in U, k \in K :
         Goto(p, [Idle EXCEPT !.type = "requestActionId", !.pc = "checks", !.user_id = u,
                              !.action_type = k, !.arrival = now,
                              !.rows = SelectById(users, u)])
    /\ UNCHANGED <<env, more, started, nextId, users, calls, p0Only, apiOnly, hist>>

\* handleRequestActionId after the read: the checks, then generateActionId
P0_handleRequestActionId_issue(p) ==
    LET r == req[p]
        err == P0_UserError(r.rows)
    IN
    /\ rev = "p0" /\ r.type = "requestActionId" /\ r.pc = "checks"
    /\ IF err # ""
       THEN /\ Reply(p, r, err)
            /\ UNCHANGED <<actionIdStore, timers, nextId>>
       ELSE /\ actionIdStore' = generateActionId(r.user_id, r.action_type)
            /\ timers' = timers \cup {now + ACTION_ID_EXPIRY_MS + CLEANUP_GRACE_MS}
            /\ nextId' = nextId + 1
            /\ Reply(p, [r EXCEPT !.action_id = nextId], "ok")
    /\ UNCHANGED <<env, more, started, users, calls, transactions, withdrawals, apiOnly, hist>>

\* a limit check that is left out
P0_adLimitReached_never(user) == FALSE

P0_adLimitReached(user) == user.daily_ads_watched >= DAILY_MAX_ADS

\* the frame of a commit handler of part_000 once consumeActionId has run
P0_CommitFrame(type, u, id, c, kind) ==
    [Idle EXCEPT !.type = type, !.user_id = u, !.action_id = id, !.arrival = now,
                 !.token = P0_TokenState(id, u, kind), !.tokenOk = c.ok,
                 !.replay = consumed[id] > 0]

\* handleWatchAd: consumeActionId and the read of the user's row
P0_handleWatchAd_consume(p, U) ==
    /\ rev = "p0" /\ CanStart(p)
    /\ \E u \in U, id \in Issued :
         LET c == consumeActionId(id, u, "watchAd")
             r == P0_CommitFrame("watchAd", u, id, c, "watchAd")
         IN  /\ actionIdStore' = c.store
             /\ consumed' = IF c.ok THEN [consumed EXCEPT ![id] = @ + 1] ELSE consumed
             /\ IF ~c.ok THEN Reply(p, r, "InvalidOrExpiredToken")
                ELSE Goto(p, [r EXCEPT !.pc = "checks", !.rows = SelectById(users, u)])
    /\ started' = started + 1
    /\ UNCHANGED <<env, more, nextId, users, calls, timers, transactions, withdrawals, apiOnly,
                   paid, okCount, ledger>>

\* handleWatchAd after the read: the checks, the PATCH, the commission call, the response
P0_handleWatchAd_commit(p) ==
    LET r == req[p]
        user == r.rows[1]
        reward == Units(REWARD_PER_AD)
        newBalance == user.balance + reward
        newAdsWatched == user.daily_ads_watched + 1
        err == IF P0_UserError(r.rows) # "" THEN P0_UserError(r.rows)
               ELSE IF P0_adLimitReached(user) THEN "QuotaExceeded" ELSE ""
        seen == IF err \in {"", "QuotaExceeded"}
                THEN [r EXCEPT !.adsRead = user.daily_ads_watched] ELSE r
    IN
    /\ rev = "p0" /\ r.type = "watchAd" /\ r.pc = "checks"
    /\ IF err # ""
       THEN /\ Reply(p, seen, err)
            /\ UNCHANGED <<users, calls, paid, okCount, ledger>>
       ELSE /\ users' = Patch(users, r.user_id,
                              [balance |-> newBalance,
                               daily_ads_watched |-> newAdsWatched,
                               last_activity |-> r.arrival])
            /\ calls' = IF user.referral_id # Null
                        THEN Append(calls, [referral_id |-> user.referral_id,
                                            user_id |-> r.user_id,
                                            amount |-> (reward * RATE_NUM) \div RATE_DEN])
                        ELSE calls
            /\ paid' = [paid EXCEPT ![r.action_id] = @ + 1]
            /\ okCount' = [okCount EXCEPT ![r.user_id].ads = @ + 1]
            /\ ledger' = [ledger EXCEPT ![r.user_id] = @ + reward]
            /\ Reply(p, [seen EXCEPT !.wrote = newAdsWatched,
                                     !.delta = newBalance - user.balance], "ok")
    /\ UNCHANGED <<env, more, started, nextId, p0Only, apiOnly, consumed>>

\* handleCommission: the own endpoint receives a commission POST and reads the referrer
P0_handleCommission_get(p) ==
    /\ rev = "p0" /\ FirstFree(p)
    /\ \E i \in 1..Len(calls) :
         /\ Goto(p, [Idle EXCEPT !.type = "commission", !.pc = "checks",
                                 !.referral_id = calls[i].referral_id,
                                 !.user_id = calls[i].user_id,
                                 !.amount = calls[i].amount, !.arrival = now,
                                 !.initData = "missing",
                                 !.rows = SelectById(users, calls[i].referral_id)])
         /\ calls' = RemoveAt(calls, i)
    /\ UNCHANGED <<env, more, started, nextId, users, p0Only, apiOnly, hist>>

\* const commissionAmount = Math.floor(amount), amount in hundredths
P0_commissionAmount(amount) == (amount \div RATE_DEN) * RATE_DEN

\* handleCommission after the read: the checks and the PATCH of the referrer's balance
P0_handleCommission_credit(p) ==
    LET r == req[p]
        referrer == r.rows[1]
        commissionAmount == P0_commissionAmount(r.amount)
        newBalance == referrer.balance + commissionAmount
        err == IF r.rows = <<>> THEN "NotFound"
               ELSE IF referrer.is_banned THEN "Banned" ELSE ""
    IN
    /\ rev = "p0" /\ r.type = "commission" /\ r.pc = "checks"
    /\ IF err # ""
       THEN /\ Reply(p, r, err)
            /\ UNCHANGED <<users, ledger>>
       ELSE /\ users' = Patch(users, r.referral_id,
                              [balance |-> newBalance, last_activity |-> r.arrival])
            /\ ledger' = [ledger EXCEPT ![r.referral_id] = @ + commissionAmount]
            /\ Goto(p, [r EXCEPT !.pc = "record", !.rows = <<>>,
                                 !.delta = newBalance - referrer.balance])
    /\ UNCHANGED <<env, more, started, nextId, calls, p0Only, apiOnly, consumed, paid, okCount>>

\* handleCommission: the POST to transactions and the response
P0_handleCommission_record(p) ==
    LET r == req[p] IN
    /\ rev = "p0" /\ r.type = "commission" /\ r.pc = "record"
    /\ transactions' = Append(transactions,
                              [user_id |-> r.referral_id, type |-> "commission",
                               amount |-> P0_commissionAmount(r.amount),
                               related_user_id |-> r.user_id])
    /\ Reply(p, r, "ok")
    /\ UNCHANGED <<env, more, started, nextId, users, calls, actionIdStore, timers,
                   withdrawals, apiOnly, hist>>

\* handlePreSpin up to its store read
P0_handlePreSpin_get(p, U) ==
    /\ rev = "p0" /\ CanPrepare(p)
    /\ \E u \in U :
         Goto(p, [Idle EXCEPT !.type = "preSpin", !.pc = "checks", !.user_id = u,
                              !.arrival = now, !.rows = SelectById(users, u)])
    /\ UNCHANGED <<env, more, started, nextId, users, calls, p0Only, apiOnly, hist>>

P0_spinLimitReached(user) == user.daily_spins >= DAILY_MAX_SPINS

\* handlePreSpin after the read: the checks, then generateActionId(id, 'spinResult')
P0_handlePreSpin_issue(p) ==
    LET r == req[p]
        err == IF P0_UserError(r.rows) # "" THEN P0_UserError(r.rows)
               ELSE IF P0_spinLimitReached(r.rows[1]) THEN "QuotaExceeded" ELSE ""
    IN
    /\ rev = "p0" /\ r.type = "preSpin" /\ r.pc = "checks"
    /\ IF err # ""
       THEN /\ Reply(p, r, err)
            /\ UNCHANGED <<actionIdStore, timers, nextId>>
       ELSE /\ actionIdStore' = generateActionId(r.user_id, "spinResult")
            /\ timers' = timers \cup {now + ACTION_ID_EXPIRY_MS + CLEANUP_GRACE_MS}
            /\ nextId' = nextId + 1
            /\ Reply(p, [r EXCEPT !.action_id = nextId], "ok")
    /\ UNCHANGED <<env, more, started, users, calls, transactions, withdrawals, apiOnly, hist>>

\* the result_index values a client sends: the first sector, the fourth, one past the last
P0_SpinInputs == {0, 3, Len(P0_SPIN_SECTORS)}

\* what generateActionId stored about the spin's outcome when the token was prepared: its
\* entry holds user_id, type and timestamp, and no prize
P0_preparedPrize(id) == Null

\* handleSpinResult: consumeActionId, the index check, the read of the user's row
P0_handleSpinResult_consume(p, U) ==
    /\ rev = "p0" /\ CanStart(p)
    /\ \E u \in U, id \in Issued, sectorIndex \in P0_SpinInputs :
         LET c == consumeActionId(id, u, "spinResult")
             r == [P0_CommitFrame("spinResult", u, id, c, "spinResult")
                      EXCEPT !.amount = sectorIndex]
         IN  /\ actionIdStore' = c.store
             /\ consumed' = IF c.ok THEN [consumed EXCEPT ![id] = @ + 1] ELSE consumed
             /\ IF ~c.ok THEN Reply(p, r, "InvalidOrExpiredToken")
                ELSE IF sectorIndex < 0 \/ sectorIndex >= Len(P0_SPIN_SECTORS)
                THEN Reply(p, r, "InvalidInput")
                ELSE Goto(p, [r EXCEPT !.pc = "checks", !.rows = SelectById(users, u)])
    /\ started' = started + 1
    /\ UNCHANGED <<env, more, nextId, users, calls, timers, transactions, withdrawals, apiOnly,
                   paid, okCount, ledger>>

\* handleSpinResult after the read: the checks, the PATCH, the response
P0_handleSpinResult_commit(p) ==
    LET r == req[p]
        user == r.rows[1]
        reward == Units(P0_SPIN_SECTORS[r.amount + 1])
        newBalance == user.balance + reward
        newSpins == user.daily_spins + 1
        err == IF P0_UserError(r.rows) # "" THEN P0_UserError(r.rows)
               ELSE IF P0_spinLimitReached(user) THEN "QuotaExceeded" ELSE ""
        seen == IF err \in {"", "QuotaExceeded"}
                THEN [r EXCEPT !.spinsRead = user.daily_spins] ELSE r
    IN
    /\ rev = "p0" /\ r.type = "spinResult" /\ r.pc = "checks"
    /\ IF err # ""
       THEN /\ Reply(p, seen, err)
            /\ UNCHANGED <<users, paid, okCount, ledger, spinCredits>>
       ELSE /\ users' = Patch(users, r.user_id,
                              [balance |-> newBalance,
                               daily_spins |-> newSpins,
                               last_activity |-> r.arrival])
            /\ paid' = [paid EXCEPT ![r.action_id] = @ + 1]
            /\ okCount' = [okCount EXCEPT ![r.user_id].spins = @ + 1]
            /\ ledger' = [ledger EXCEPT ![r.user_id] = @ + reward]
            /\ spinCredits' = spinCredits
                                 \cup {<<P0_preparedPrize(r.action_id), newBalance - user.balance>>}
            /\ Reply(p, [seen EXCEPT !.wrote = newSpins,
                                     !.delta = newBalance - user.balance], "ok")
    /\ UNCHANGED <<env, taskVars, faults, started, nextId, calls, p0Only, apiOnly, consumed>>

\* the withdraw requests a client sends: <<amount in units, binanceId well-formed>>
WithdrawInputs == {<<5, TRUE>>, <<0, FALSE>>, <<1000, TRUE>>}

\* handleWithdraw: consumeActionId and the read of the user's row
P0_handleWithdraw_consume(p, U) ==
    /\ rev = "p0" /\ CanStart(p)
    /\ \E u \in U, id \in Issued, w \in WithdrawInputs :
         LET c == consumeActionId(id, u, "withdraw")
             r == [P0_CommitFrame("withdraw", u, id, c, "withdraw")
                      EXCEPT !.amount = Units(w[1]), !.binanceOk = w[2]]
         IN  /\ actionIdStore' = c.store
             /\ consumed' = IF c.ok THEN [consumed EXCEPT ![id] = @ + 1] ELSE consumed
             /\ IF ~c.ok THEN Reply(p, r, "InvalidOrExpiredToken")
                ELSE Goto(p, [r EXCEPT !.pc = "checks", !.rows = SelectById(users, u)])
    /\ started' = started + 1
    /\ UNCHANGED <<env, more, nextId, users, calls, timers, transactions, withdrawals, apiOnly,
                   paid, okCount, ledger>>

\* a balance check that is left out
insufficientBalance_never(balance, amount) == FALSE

\* user.balance < withdrawAmount (part_000), user.balance < floatAmount (api)
insufficientBalance(balance, amount) == balance < amount

\* handleWithdraw after the read: the checks and the PATCH of the debited balance
P0_handleWithdraw_debit(p) ==
    LET r0 == req[p]
        r == IF r0.type = "withdraw" /\ r0.pc = "checks" /\ P0_UserError(r0.rows) = ""
                /\ r0.amount > 0
             THEN [r0 EXCEPT !.balanceRead = r0.rows[1].balance] ELSE r0
        user == r.rows[1]
        withdrawAmount == r.amount
        newBalance == user.balance - withdrawAmount
        err == IF P0_UserError(r.rows) # "" THEN P0_UserError(r.rows)
               ELSE IF withdrawAmount <= 0 THEN "InvalidInput"
               ELSE IF insufficientBalance(user.balance, withdrawAmount)
               THEN "InsufficientBalance"
               ELSE IF ~r.binanceOk THEN "InvalidInput" ELSE ""
    IN
    /\ rev = "p0" /\ r.type = "withdraw" /\ r.pc = "checks"
    /\ IF err # ""
       THEN /\ Reply(p, r, err)
            /\ UNCHANGED <<users, paid, ledger>>
       ELSE /\ users' = Patch(users, r.user_id,
                              [balance |-> newBalance, last_activity |-> r.arrival])
            /\ paid' = [paid EXCEPT ![r.action_id] = @ + 1]
            /\ ledger' = [ledger EXCEPT ![r.user_id] = @ - withdrawAmount]
            /\ Goto(p, [r EXCEPT !.pc = "record", !.rows = <<>>,
                                 !.delta = newBalance - user.balance])
    /\ UNCHANGED <<env, more, started, nextId, calls, p0Only, apiOnly, consumed, okCount>>

\* handleWithdraw: the POST to withdrawals and the response
P0_handleWithdraw_record(p) ==
    LET r == req[p] IN
    /\ rev = "p0" /\ r.type = "withdraw" /\ r.pc = "record"
    /\ withdrawals' = Append(withdrawals,
                             [user_id |-> r.user_id, amount |-> r.amount,
                              status |-> "requested"])
    /\ Reply(p, r, "ok")
    /\ UNCHANGED <<env, more, started, nextId, users, calls, actionIdStore, timers,
                   transactions, apiOnly, hist>>

\* the row handleGetUserData inserts for a new user
P0_newUserPayload(referral, t) ==
    [balance |-> 0, referral_id |-> referral, is_banned |-> FALSE, last_activity |-> t,
     daily_ads_watched |-> 0, daily_spins |-> 0, reset_timestamp |-> now + RESET_INTERVAL_MS]

\* handleGetUserData up to the read of the user's row; referral is body.referral_id
P0_handleGetUserData_get(p, U) ==
    /\ rev = "p0" /\ CanStart(p)
    /\ \E u \in U, referral \in UserIds \cup {Null} :
         /\ u \in DOMAIN users => referral = Null
         /\ Goto(p, [Idle EXCEPT !.type = "getUserData", !.pc = "checks", !.user_id = u,
                                 !.referral_id = referral, !.arrival = now,
                                 !.rows = SelectById(users, u)])
    /\ started' = started + 1
    /\ UNCHANGED <<env, more, nextId, users, calls, p0Only, apiOnly, hist>>

\* the fixed-timer reset test of handleGetUserData
P0_shouldReset(user) == now >= user.reset_timestamp

\* POST of a users row; the primary key refuses a second row with the same id
P0_InsertUser(p, r, referral) ==
    IF r.user_id \in DOMAIN users
    THEN /\ Reply(p, r, "UpstreamFailure")
         /\ UNCHANGED <<users, okCount, ledger>>
    ELSE /\ users' = users @@ (r.user_id :> P0_newUserPayload(referral, r.arrival))
         /\ okCount' = [okCount EXCEPT ![r.user_id] = [ads |-> 0, spins |-> 0]]
         /\ ledger' = [ledger EXCEPT ![r.user_id] = 0]
         /\ Reply(p, r, "ok")

\* handleGetUserData after the read: registration, or the reset test and the PATCH
P0_handleGetUserData_update(p) ==
    LET r == req[p]
        user == r.rows[1]
    IN
    /\ rev = "p0" /\ r.type = "getUserData" /\ r.pc = "checks"
    /\ IF r.rows = <<>>
       THEN IF r.referral_id # Null /\ r.referral_id = r.user_id
            THEN /\ Reply(p, r, "InvalidInput")
                 /\ UNCHANGED <<users, okCount, ledger>>
            ELSE IF r.referral_id # Null
            THEN /\ Goto(p, [r EXCEPT !.pc = "insert",
                                      !.rows = SelectById(users, r.referral_id)])
                 /\ UNCHANGED <<users, okCount, ledger>>
            ELSE P0_InsertUser(p, r, Null)
       ELSE IF P0_shouldReset(user)
       THEN /\ users' = Patch(users, r.user_id,
                              [daily_ads_watched |-> 0, daily_spins |-> 0,
                               reset_timestamp |-> now + RESET_INTERVAL_MS,
                               last_activity |-> r.arrival])
            /\ okCount' = [okCount EXCEPT ![r.user_id] = [ads |-> 0, spins |-> 0]]
            /\ Reply(p, [r EXCEPT !.reset = {"ads", "spins"}, !.adsRead = user.daily_ads_watched,
                                  !.spinsRead = user.daily_spins], "ok")
            /\ UNCHANGED ledger
       ELSE /\ users' = Patch(users, r.user_id, [last_activity |-> r.arrival])
            /\ Reply(p, r, "ok")
            /\ UNCHANGED <<okCount, ledger>>
    /\ UNCHANGED <<env, more, started, nextId, calls, p0Only, apiOnly, consumed, paid>>

\* handleGetUserData, registration with a referral id: the POST after the referrer's read
P0_handleGetUserData_insert(p) ==
    LET r == req[p] IN
    /\ rev = "p0" /\ r.type = "getUserData" /\ r.pc = "insert"
    /\ P0_InsertUser(p, r, IF r.rows = <<>> THEN Null ELSE r.referral_id)
    /\ UNCHANGED <<env, more, started, nextId, calls, p0Only, apiOnly, consumed, paid>>

\* ====================================================== src/api/index.js

\* checkRateLimit, after its read: the value of its result's ok
checkRateLimit(rows) ==
    IF rows = <<>> THEN TRUE
    ELSE LET lastActivity == IF rows[1].last_activity # Null
                             THEN rows[1].last_activity ELSE 0
             timeElapsed == now - lastActivity
         IN  ~(timeElapsed < MIN_TIME_BETWEEN_ACTIONS_MS)

\* the action types a client asks handlePreSpin for
API_ActionTypes == {"watchAd", "spin", "withdraw"}

\* the sectors Math.random() picks in the runs explored: the fourth
PrizeIndexes == {3}

\* handlePreSpin up to the store read of checkRateLimit
API_handlePreSpin_get(p, U, K) ==
    /\ rev = "api" /\ CanPrepare(p)
    /\ \E u \in U, k \in K :
         Goto(p, [Idle EXCEPT !.type = "preSpin", !.pc = "rate", !.user_id = u,
                              !.action_type = k, !.arrival = now,
                              !.rows = SelectById(users, u)])
    /\ UNCHANGED <<env, more, started, nextId, users, calls, p0Only, apiOnly, hist>>

\* handlePreSpin after checkRateLimit: the POST of the token
API_handlePreSpin_post(p) ==
    LET r == req[p]
        token == [user_id |-> r.user_id, action_type |-> r.action_type,
                  created_at |-> now, payload |-> <<>>]
    IN
    /\ rev = "api" /\ r.type = "preSpin" /\ r.pc = "rate"
    /\ IF ~checkRateLimit(r.rows)
       THEN /\ Reply(p, r, "RateLimited")
            /\ UNCHANGED <<action_tokens, nextId>>
       ELSE /\ action_tokens' = action_tokens @@ (nextId :> token)
            /\ nextId' = nextId + 1
            /\ IF r.action_type = "spin"
               THEN Goto(p, [r EXCEPT !.pc = "payload", !.action_id = nextId, !.rows = <<>>])
               ELSE Reply(p, [r EXCEPT !.action_id = nextId], "ok")
    /\ UNCHANGED <<env, more, started, users, calls, p0Only, commission_history,
                   withdrawal_requests, hist>>

\* handlePreSpin for 'spin': calculateRandomSpinPrize and the PATCH of the token's payload
API_handlePreSpin_payload(p) ==
    LET r == req[p] IN
    /\ rev = "api" /\ r.type = "preSpin" /\ r.pc = "payload"
    /\ \E prizeIndex \in PrizeIndexes :
         action_tokens' = Patch(action_tokens, r.action_id,
                                [payload |-> <<SPIN_SECTORS[prizeIndex + 1], prizeIndex>>])
    /\ Reply(p, r, "ok")
    /\ UNCHANGED <<env, more, started, nextId, users, calls, p0Only, commission_history,
                   withdrawal_requests, hist>>

\* the token validation of handleWatchAd, handleSpinResult and handleWithdraw on the
\* rows they read: "invalid", "expired" or "ok"
validateActionToken(actions, id, type, needsPayload) ==
    IF actions = <<>> THEN "invalid"
    ELSE IF actions[1].user_id # id \/ actions[1].action_type # type THEN "invalid"
    ELSE IF needsPayload /\ actions[1].payload = <<>> THEN "invalid"
    ELSE IF now - actions[1].created_at > ACTION_ID_EXPIRY_MS THEN "expired"
    ELSE "ok"

\* what the rows read hold for the token a commit presents (recorded, not used by the
\* handlers)
API_TokenState(actions, user_id, type) ==
    IF actions = <<>> THEN "none"
    ELSE IF actions[1].user_id # user_id \/ actions[1].action_type # type THEN "none"
    ELSE IF now - actions[1].created_at <= ACTION_ID_EXPIRY_MS THEN "fresh"
    ELSE "stale"

\* a commit handler up to the read of its token
API_CommitFrame(type, u, id) ==
    [Idle EXCEPT !.type = type, !.pc = "token", !.user_id = u, !.action_id = id,
                 !.arrival = now, !.rows = SelectById(action_tokens, id),
                 !.replay = consumed[id] > 0]

\* A commit handler after the read of its token: the validation, the DELETE and the read
\* of the user's row.  The DELETE and the read that follows it touch different tables and
\* neither looks at the clock, so every run in which another step falls between them has
\* the same outcome as one in which that step comes first; they are one step here.
API_Validate(p, r, type, needsPayload) ==
    LET v == validateActionToken(r.rows, r.user_id, type, needsPayload)
        s == [r EXCEPT !.token = API_TokenState(r.rows, r.user_id, type)]
    IN  IF v = "invalid"
        THEN /\ Reply(p, s, "InvalidOrExpiredToken")
             /\ UNCHANGED <<action_tokens, consumed>>
        ELSE IF v = "expired"
        THEN /\ action_tokens' = Remove(action_tokens, r.action_id)
             /\ Reply(p, s, "TokenExpired")
             /\ UNCHANGED consumed
        ELSE /\ action_tokens' = Remove(action_tokens, r.action_id)
             /\ consumed' = [consumed EXCEPT ![r.action_id] = @ + 1]
             /\ Goto(p, [s EXCEPT !.pc = "checks", !.tokenOk = TRUE,
                                  !.amount = IF needsPayload THEN r.rows[1].payload[1]
                                             ELSE r.amount,
                                  !.rows = SelectById(users, r.user_id)])

\* handleWatchAd up to the read of the token
API_handleWatchAd_get(p, U) ==
    /\ rev = "api" /\ CanStart(p)
    /\ \E u \in U, id \in Issued : Goto(p, API_CommitFrame("watchAd", u, id))
    /\ started' = started + 1
    /\ UNCHANGED <<env, more, nextId, users, calls, p0Only, apiOnly, hist>>

API_handleWatchAd_validate(p) ==
    /\ rev = "api" /\ req[p].type = "watchAd" /\ req[p].pc = "token"
    /\ API_Validate(p, req[p], "watchAd", FALSE)
    /\ UNCHANGED <<env, more, started, nextId, users, calls, p0Only, commission_history,
                   withdrawal_requests, paid, okCount, ledger>>

\* handleWatchAd after the read of the user's row.  The limit check names DAILY_MAX, which
\* the module does not declare: evaluating it throws a ReferenceError, the catch block
\* answers 500, and the PATCH below it is never reached.
API_handleWatchAd_commit(p) ==
    LET r == req[p]
        user == r.rows[1]
    IN
    /\ rev = "api" /\ r.type = "watchAd" /\ r.pc = "checks"
    /\ IF r.rows = <<>> THEN Reply(p, r, "NotFound")
       ELSE IF user.is_banned THEN Reply(p, r, "Banned")
       ELSE Reply(p, [r EXCEPT !.adsRead = user.ads_watched_today], "InternalError")
    /\ UNCHANGED <<env, more, started, nextId, users, calls, p0Only, apiOnly, hist>>

\* handleSpinResult up to the read of the token
API_handleSpinResult_get(p, U) ==
    /\ rev = "api" /\ CanStart(p)
    /\ \E u \in U, id \in Issued : Goto(p, API_CommitFrame("spinResult", u, id))
    /\ started' = started + 1
    /\ UNCHANGED <<env, more, nextId, users, calls, p0Only, apiOnly, hist>>

API_handleSpinResult_validate(p) ==
    /\ rev = "api" /\ req[p].type = "spinResult" /\ req[p].pc = "token"
    /\ API_Validate(p, req[p], "spin", TRUE)
    /\ UNCHANGED <<env, more, started, nextId, users, calls, p0Only, commission_history,
                   withdrawal_requests, paid, okCount, ledger>>

API_spinLimitReached(user) == user.spins_today >= DAILY_MAX_SPINS

EmptyPayload == [c \in {} |-> 0]

\* handleSpinResult after the read of the user's row: the checks, the PATCH, the
\* commission, the response
API_handleSpinResult_commit(p) ==
    LET r == req[p]
        user == r.rows[1]
        prize == Units(r.amount)
        newSpinCount == user.spins_today + 1
        newBalance == user.balance + prize
        updatePayload ==
            [balance |-> newBalance, spins_today |-> newSpinCount, last_activity |-> now]
            @@ (IF newSpinCount = DAILY_MAX_SPINS
                THEN [spins_limit_reached_at |-> now] ELSE EmptyPayload)
    IN
    /\ rev = "api" /\ r.type = "spinResult" /\ r.pc = "checks"
    /\ IF r.rows = <<>>
       THEN /\ Reply(p, r, "NotFound")
            /\ UNCHANGED <<users, calls, paid, okCount, ledger, spinCredits>>
       ELSE IF user.is_banned
       THEN /\ Reply(p, r, "Banned")
            /\ UNCHANGED <<users, calls, paid, okCount, ledger, spinCredits>>
       ELSE IF API_spinLimitReached(user)
       THEN /\ Reply(p, [r EXCEPT !.spinsRead = user.spins_today], "QuotaExceeded")
            /\ UNCHANGED <<users, calls, paid, okCount, ledger, spinCredits>>
       ELSE /\ users' = Patch(users, r.user_id, updatePayload)
            /\ calls' = IF user.ref_by # Null
                        THEN Append(calls, [referral_id |-> user.ref_by,
                                            user_id |-> r.user_id, amount |-> prize])
                        ELSE calls
            /\ paid' = [paid EXCEPT ![r.action_id] = @ + 1]
            /\ okCount' = [okCount EXCEPT ![r.user_id].spins = @ + 1]
            /\ ledger' = [ledger EXCEPT ![r.user_id] = @ + prize]
            /\ spinCredits' = spinCredits \cup {<<prize, updatePayload.balance - user.balance>>}
            /\ Reply(p, [r EXCEPT !.spinsRead = user.spins_today,
                                  !.wrote = updatePayload.spins_today,
                                  !.delta = updatePayload.balance - user.balance], "ok")
    /\ UNCHANGED <<env, taskVars, faults, started, nextId, p0Only, apiOnly, consumed>>

\* processCommission begins: the threshold test and the read of the referrer
API_processCommission_get(p) ==
    /\ rev = "api" /\ FirstFree(p)
    /\ \E i \in 1..Len(calls) :
         LET sourceReward == calls[i].amount
             r == [Idle EXCEPT !.type = "processCommission", !.pc = "checks",
                               !.referral_id = calls[i].referral_id,
                               !.user_id = calls[i].user_id,
                               !.amount = sourceReward, !.arrival = now,
                               !.rows = SelectById(users, calls[i].referral_id)]
         IN  \* commissionAmount < 0.000001: of the rewards, which are whole hundredths,
             \* only one of zero or less gives a commission that small
             /\ IF sourceReward * RATE_NUM < 1
                THEN Reply(p, [r EXCEPT !.rows = <<>>], "Skipped")
                ELSE Goto(p, r)
             /\ calls' = RemoveAt(calls, i)
    /\ UNCHANGED <<env, more, started, nextId, users, p0Only, apiOnly, hist>>

\* const commissionAmount = sourceReward * REFERRAL_COMMISSION_RATE
API_commissionAmount(sourceReward) == (sourceReward * RATE_NUM) \div RATE_DEN

\* a referrer check that forgets the ban flag
API_referrerUnavailable_ignoreBan(rows) == rows = <<>>

\* !Array.isArray(users) || users.length === 0 || users[0].is_banned
API_referrerUnavailable(rows) == rows = <<>> \/ rows[1].is_banned

\* processCommission after the read: the checks and the PATCH of the referrer's balance
API_processCommission_credit(p) ==
    LET r == req[p]
        commissionAmount == API_commissionAmount(r.amount)
        newBalance == r.rows[1].balance + commissionAmount
    IN
    /\ rev = "api" /\ r.type = "processCommission" /\ r.pc = "checks"
    /\ IF API_referrerUnavailable(r.rows)
       THEN /\ Reply(p, r, "Skipped")
            /\ UNCHANGED <<users, ledger>>
       ELSE /\ users' = Patch(users, r.referral_id, [balance |-> newBalance])
            /\ ledger' = [ledger EXCEPT ![r.referral_id] = @ + commissionAmount]
            /\ Goto(p, [r EXCEPT !.pc = "record",
                                 !.delta = newBalance - r.rows[1].balance, !.rows = <<>>])
    /\ UNCHANGED <<env, more, started, nextId, calls, p0Only, apiOnly, consumed, paid, okCount>>

\* processCommission: the POST to commission_history and the result
API_processCommission_record(p) ==
    LET r == req[p] IN
    /\ rev = "api" /\ r.type = "processCommission" /\ r.pc = "record"
    /\ commission_history' = Append(commission_history,
                                    [referrer_id |-> r.referral_id,
                                     referee_id |-> r.user_id,
                                     amount |-> API_commissionAmount(r.amount),
                                     source_reward |-> r.amount])
    /\ Reply(p, r, "ok")
    /\ UNCHANGED <<env, more, started, nextId, users, calls, p0Only, action_tokens,
                   withdrawal_requests, hist>>

\* handleWithdraw: the checks on the body, then the read of the token
API_handleWithdraw_get(p, U) ==
    /\ rev = "api" /\ CanStart(p)
    /\ \E u \in U, id \in Issued, w \in WithdrawInputs :
         LET floatAmount == Units(w[1])
             r == [API_CommitFrame("withdraw", u, id)
                      EXCEPT !.amount = floatAmount, !.binanceOk = w[2]]
         IN  IF ~w[2] \/ floatAmount = 0 \/ floatAmount <= 0
             THEN Reply(p, [r EXCEPT !.rows = <<>>], "InvalidInput")
             ELSE Goto(p, r)
    /\ started' = started + 1
    /\ UNCHANGED <<env, more, nextId, users, calls, p0Only, apiOnly, hist>>

API_handleWithdraw_validate(p) ==
    /\ rev = "api" /\ req[p].type = "withdraw" /\ req[p].pc = "token"
    /\ API_Validate(p, req[p], "withdraw", FALSE)
    /\ UNCHANGED <<env, more, started, nextId, users, calls, p0Only, commission_history,
                   withdrawal_requests, paid, okCount, ledger>>

\* handleWithdraw after the read of the user's row: the checks and the PATCH of the balance
API_handleWithdraw_debit(p) ==
    LET r0 == req[p]
        r == IF r0.type = "withdraw" /\ r0.pc = "checks" /\ r0.rows # <<>>
                /\ ~r0.rows[1].is_banned
             THEN [r0 EXCEPT !.balanceRead = r0.rows[1].balance] ELSE r0
        user == r.rows[1]
        floatAmount == r.amount
        newBalance == user.balance - floatAmount
    IN
    /\ rev = "api" /\ r.type = "withdraw" /\ r.pc = "checks"
    /\ IF r.rows = <<>>
       THEN /\ Reply(p, r, "NotFound")
            /\ UNCHANGED <<users, paid, ledger>>
       ELSE IF user.is_banned
       THEN /\ Reply(p, r, "Banned")
            /\ UNCHANGED <<users, paid, ledger>>
       ELSE IF insufficientBalance(user.balance, floatAmount)
       THEN /\ Reply(p, r, "InsufficientBalance")
            /\ UNCHANGED <<users, paid, ledger>>
       ELSE /\ users' = Patch(users, r.user_id,
                              [balance |-> newBalance, last_activity |-> now])
            /\ paid' = [paid EXCEPT ![r.action_id] = @ + 1]
            /\ ledger' = [ledger EXCEPT ![r.user_id] = @ - floatAmount]
            /\ Goto(p, [r EXCEPT !.pc = "record", !.rows = <<>>,
                                 !.delta = newBalance - user.balance])
    /\ UNCHANGED <<env, more, started, nextId, calls, p0Only, apiOnly, consumed, okCount>>

\* handleWithdraw: the POST to withdrawal_requests and the response
API_handleWithdraw_record(p) ==
    LET r == req[p] IN
    /\ rev = "api" /\ r.type = "withdraw" /\ r.pc = "record"
    /\ withdrawal_requests' = Append(withdrawal_requests,
                                     [user_id |-> r.user_id, amount |-> r.amount,
                                      status |-> "pending"])
    /\ Reply(p, r, "ok")
    /\ UNCHANGED <<env, more, started, nextId, users, calls, p0Only, action_tokens,
                   commission_history, hist>>

\* handleGetUserData up to the read of the user's row
API_handleGetUserData_get(p, U) ==
    /\ rev = "api" /\ CanStart(p)
    /\ \E u \in U :
         Goto(p, [Idle EXCEPT !.type = "getUserData", !.pc = "checks", !.user_id = u,
                              !.arrival = now, !.rows = SelectById(users, u)])
    /\ started' = started + 1
    /\ UNCHANGED <<env, more, nextId, users, calls, p0Only, apiOnly, hist>>

\* handleGetUserData after the read; resetDailyLimitsIfExpired takes Date.now() and reads
\* the limits
API_handleGetUserData_limits(p) ==
    LET r == req[p] IN
    /\ rev = "api" /\ r.type = "getUserData" /\ r.pc = "checks"
    /\ IF r.rows = <<>>
       THEN Reply(p, r, "NotFound")
       ELSE Goto(p, [r EXCEPT !.pc = "reset", !.resetNow = now,
                              !.limits = SelectById(users, r.user_id)])
    /\ UNCHANGED <<env, more, started, nextId, users, calls, p0Only, apiOnly, hist>>

\* resetDailyLimitsIfExpired, the ads test: limit reached and the interval over since then
API_adsResetDue(user, t) ==
    /\ user.ads_limit_reached_at # Null /\ user.ads_watched_today >= DAILY_MAX_ADS
    /\ t - user.ads_limit_reached_at > RESET_INTERVAL_MS

\* a spins test that already resets when exactly the interval has passed
API_spinsResetDue_atInterval(user, t) ==
    /\ user.spins_limit_reached_at # Null /\ user.spins_today >= DAILY_MAX_SPINS
    /\ t - user.spins_limit_reached_at >= RESET_INTERVAL_MS

\* resetDailyLimitsIfExpired, the spins test
API_spinsResetDue(user, t) ==
    /\ user.spins_limit_reached_at # Null /\ user.spins_today >= DAILY_MAX_SPINS
    /\ t - user.spins_limit_reached_at > RESET_INTERVAL_MS

\* resetDailyLimitsIfExpired after its read: the update payload and the PATCH
API_handleGetUserData_reset(p) ==
    LET r == req[p]
        user == r.limits[1]
        adsDue == API_adsResetDue(user, r.resetNow)
        spinsDue == API_spinsResetDue(user, r.resetNow)
        updatePayload ==
            (IF adsDue THEN [ads_watched_today |-> 0, ads_limit_reached_at |-> Null]
             ELSE EmptyPayload)
            @@ (IF spinsDue THEN [spins_today |-> 0, spins_limit_reached_at |-> Null]
                ELSE EmptyPayload)
    IN
    /\ rev = "api" /\ r.type = "getUserData" /\ r.pc = "reset"
    /\ IF r.limits = <<>>
       THEN /\ Goto(p, [r EXCEPT !.pc = "finish"])
            /\ UNCHANGED <<users, okCount>>
       ELSE /\ users' = IF DOMAIN updatePayload # {}
                        THEN Patch(users, r.user_id, updatePayload) ELSE users
            /\ okCount' = [okCount EXCEPT
                             ![r.user_id].ads = IF adsDue THEN 0 ELSE @,
                             ![r.user_id].spins = IF spinsDue THEN 0 ELSE @]
            /\ Goto(p, [r EXCEPT !.pc = "finish", !.limits = <<>>,
                                 !.reset = (IF adsDue THEN {"ads"} ELSE {})
                                               \cup (IF spinsDue THEN {"spins"} ELSE {}),
                                 !.adsRead = user.ads_watched_today,
                                 !.spinsRead = user.spins_today])
    /\ UNCHANGED <<env, more, started, nextId, calls, p0Only, apiOnly, consumed, paid, ledger>>

\* handleGetUserData after the reset: the banned check, the PATCH of last_activity
API_handleGetUserData_finish(p) ==
    LET r == req[p] IN
    /\ rev = "api" /\ r.type = "getUserData" /\ r.pc = "finish"
    /\ IF r.rows[1].is_banned
       THEN /\ Reply(p, r, "Banned")
            /\ UNCHANGED users
       ELSE /\ users' = Patch(users, r.user_id, [last_activity |-> now])
            /\ Reply(p, r, "ok")
    /\ UNCHANGED <<env, more, started, nextId, calls, p0Only, apiOnly, hist>>

\* ================================================================ task claims

TaskIds == {1, 2}

\* what the getChatMember call to the Telegram API comes back with: a membership status,
\* a response that is not ok, a payload with ok = false, a network or parse exception; and
\* (api) BOT_TOKEN not configured, in which case no call is made
OracleErrors == {"httpError", "notOk", "exception", "noToken"}
OracleOutcomes == {"member", "left"} \cup OracleErrors

\* a checkChannelMembership that takes an exception for a membership
checkChannelMembership_open(out) ==
    IF out = "exception" THEN TRUE ELSE out \in {"member", "administrator", "creator"}

\* checkChannelMembership of src/api/index.js: its return value
checkChannelMembership(out) ==
    IF out = "noToken" THEN FALSE
    ELSE IF out = "exception" THEN FALSE
    ELSE IF out = "httpError" THEN FALSE
    ELSE IF out = "notOk" THEN FALSE
    ELSE out \in {"member", "administrator", "creator"}

\* checkChannelMembership of part_000: it does not test BOT_TOKEN; without one the URL
\* names no bot and the Telegram API answers with a response that is not ok
P0_checkChannelMembership(out) ==
    IF out = "exception" THEN FALSE
    ELSE IF out \in {"httpError", "noToken"} THEN FALSE
    ELSE IF out = "notOk" THEN FALSE
    ELSE out \in {"member", "administrator", "creator"}

\* an already-claimed lookup that finds nothing
Completed_never(id, taskId) == FALSE

\* supabaseFetch(table, 'GET', null, `?user_id=eq.${id}&task_id=eq.${taskId}`) returned rows
Completed(id, taskId) ==
    \E i \in 1..Len(user_tasks) : user_tasks[i].user_id = id /\ user_tasks[i].task_id = taskId

\* ------------------------------------------------- part_000: handleCompleteTask

\* handleCompleteTask up to the read of the user's row
P0_handleCompleteTask_get(p, U, T) ==
    /\ rev = "p0" /\ CanStart(p)
    /\ \E u \in U, t \in T :
         Goto(p, [Idle EXCEPT !.type = "completeTask", !.pc = "checks", !.user_id = u,
                              !.task_id = t, !.arrival = now, !.replay = claimed[<<u, t>>] > 0,
                              !.rows = SelectById(users, u)])
    /\ started' = started + 1
    /\ UNCHANGED <<env, more, nextId, users, calls, p0Only, apiOnly, hist>>

\* the checks on the user's row, then the read of user_tasks
P0_handleCompleteTask_completed(p) ==
    LET r == req[p]
        err == P0_UserError(r.rows)
    IN
    /\ rev = "p0" /\ r.type = "completeTask" /\ r.pc = "checks"
    /\ IF err # "" THEN Reply(p, r, err)
       ELSE Goto(p, [r EXCEPT !.pc = "claimed", !.done = Completed(r.user_id, r.task_id)])
    /\ UNCHANGED <<env, more, started, nextId, users, calls, p0Only, apiOnly, hist>>

\* the already-claimed check, then the read of the task
P0_handleCompleteTask_task(p) ==
    LET r == req[p] IN
    /\ rev = "p0" /\ r.type = "completeTask" /\ r.pc = "claimed"
    /\ IF r.done THEN Reply(p, r, "AlreadyClaimed")
       ELSE Goto(p, [r EXCEPT !.pc = "task", !.taskRows = SelectById(tasks, r.task_id)])
    /\ UNCHANGED <<env, more, started, nextId, users, calls, p0Only, apiOnly, hist>>

\* the checks on the task; a join_channel task goes to the membership call, any other
\* straight to the PATCH of the task's counter
P0_handleCompleteTask_verify(p) ==
    LET r == req[p]
        task == r.taskRows[1]
    IN
    /\ rev = "p0" /\ r.type = "completeTask" /\ r.pc = "task"
    /\ IF r.taskRows = <<>> \/ ~task.is_active
       THEN /\ Reply(p, r, "NotFound")
            /\ UNCHANGED tasks
       ELSE IF task.current_users >= task.max_users
       THEN /\ Reply(p, r, "CapacityReached")
            /\ UNCHANGED tasks
       ELSE IF task.type = "join_channel"
       THEN /\ Goto(p, [r EXCEPT !.pc = "member"])
            /\ UNCHANGED tasks
       ELSE /\ tasks' = Patch(tasks, r.task_id, [current_users |-> task.current_users + 1])
            /\ Goto(p, [r EXCEPT !.pc = "record", !.wrote = task.current_users + 1])
    /\ UNCHANGED <<env, user_tasks, claimed, spinCredits, faults, started, nextId, users,
                   calls, p0Only, apiOnly, hist>>

\* checkChannelMembership returns; the PATCH of the task's counter
P0_handleCompleteTask_count(p) ==
    LET r == req[p]
        task == r.taskRows[1]
    IN
    /\ rev = "p0" /\ r.type = "completeTask" /\ r.pc = "member"
    /\ \E out \in OracleOutcomes :
         IF ~P0_checkChannelMembership(out)
         THEN /\ Reply(p, [r EXCEPT !.oracle = out], "NotAMember")
              /\ UNCHANGED tasks
         ELSE /\ tasks' = Patch(tasks, r.task_id, [current_users |-> task.current_users + 1])
              /\ Goto(p, [r EXCEPT !.pc = "record", !.oracle = out,
                                   !.wrote = task.current_users + 1])
    /\ UNCHANGED <<env, user_tasks, claimed, spinCredits, faults, started, nextId, users,
                   calls, p0Only, apiOnly, hist>>

\* the POST to user_tasks
P0_handleCompleteTask_record(p) ==
    LET r == req[p] IN
    /\ rev = "p0" /\ r.type = "completeTask" /\ r.pc = "record"
    /\ user_tasks' = Append(user_tasks, [user_id |-> r.user_id, task_id |-> r.task_id])
    /\ Goto(p, [r EXCEPT !.pc = "credit"])
    /\ UNCHANGED <<env, tasks, claimed, spinCredits, faults, started, nextId, users,
                   calls, p0Only, apiOnly, hist>>

\* the PATCH of the user's balance and the response
P0_handleCompleteTask_credit(p) ==
    LET r == req[p]
        user == r.rows[1]
        reward == r.taskRows[1].reward
        newBalance == user.balance + reward
    IN
    /\ rev = "p0" /\ r.type = "completeTask" /\ r.pc = "credit"
    /\ users' = Patch(users, r.user_id, [balance |-> newBalance, last_activity |-> r.arrival])
    /\ ledger' = [ledger EXCEPT ![r.user_id] = @ + reward]
    /\ claimed' = [claimed EXCEPT ![<<r.user_id, r.task_id>>] = @ + 1]
    /\ Reply(p, [r EXCEPT !.delta = newBalance - user.balance], "ok")
    /\ UNCHANGED <<env, tasks, user_tasks, spinCredits, faults, started, nextId, calls,
                   p0Only, apiOnly, consumed, paid, okCount>>

\* ------------------------------------------------------ api: handleClaimTask

\* handleClaimTask up to the store read of checkRateLimit; channelOk: the channel_username
\* of the body is the one stored for the task
API_handleClaimTask_get(p, U, T) ==
    /\ rev = "api" /\ CanStart(p)
    /\ \E u \in U, t \in T, c \in BOOLEAN :
         Goto(p, [Idle EXCEPT !.type = "claimTask", !.pc = "rate", !.user_id = u,
                              !.task_id = t, !.channelOk = c, !.arrival = now,
                              !.replay = claimed[<<u, t>>] > 0,
                              !.rows = SelectById(users, u)])
    /\ started' = started + 1
    /\ UNCHANGED <<env, more, nextId, users, calls, p0Only, apiOnly, hist>>

\* after checkRateLimit: the read of the user's row
API_handleClaimTask_user(p) ==
    LET r == req[p] IN
    /\ rev = "api" /\ r.type = "claimTask" /\ r.pc = "rate"
    /\ IF ~checkRateLimit(r.rows) THEN Reply(p, r, "RateLimited")
       ELSE Goto(p, [r EXCEPT !.pc = "checks", !.rows = SelectById(users, r.user_id)])
    /\ UNCHANGED <<env, more, started, nextId, users, calls, p0Only, apiOnly, hist>>

\* the checks on the user's row, then the read of user_tasks_completed
API_handleClaimTask_completed(p) ==
    LET r == req[p] IN
    /\ rev = "api" /\ r.type = "claimTask" /\ r.pc = "checks"
    /\ IF r.rows = <<>> THEN Reply(p, r, "NotFound")
       ELSE IF r.rows[1].is_banned THEN Reply(p, r, "Banned")
       ELSE Goto(p, [r EXCEPT !.pc = "claimed", !.done = Completed(r.user_id, r.task_id)])
    /\ UNCHANGED <<env, more, started, nextId, users, calls, p0Only, apiOnly, hist>>

\* the already-completed check, then the read of the task
API_handleClaimTask_task(p) ==
    LET r == req[p] IN
    /\ rev = "api" /\ r.type = "claimTask" /\ r.pc = "claimed"
    /\ IF r.done THEN Reply(p, r, "AlreadyClaimed")
       ELSE Goto(p, [r EXCEPT !.pc = "task", !.taskRows = SelectById(tasks, r.task_id)])
    /\ UNCHANGED <<env, more, started, nextId, users, calls, p0Only, apiOnly, hist>>

\* the checks on the task, then the membership call
API_handleClaimTask_verify(p) ==
    LET r == req[p]
        taskData == r.taskRows[1]
    IN
    /\ rev = "api" /\ r.type = "claimTask" /\ r.pc = "task"
    /\ IF r.taskRows = <<>> THEN Reply(p, r, "NotFound")
       ELSE IF ~r.channelOk THEN Reply(p, r, "InvalidInput")
       ELSE IF taskData.current_users >= taskData.max_users
       THEN Reply(p, r, "CapacityReached")
       ELSE Goto(p, [r EXCEPT !.pc = "member"])
    /\ UNCHANGED <<env, more, started, nextId, users, calls, p0Only, apiOnly, hist>>

\* checkChannelMembership returns; the POST to user_tasks_completed
API_handleClaimTask_record(p) ==
    LET r == req[p] IN
    /\ rev = "api" /\ r.type = "claimTask" /\ r.pc = "member"
    /\ \E out \in OracleOutcomes :
         IF ~checkChannelMembership(out)
         THEN /\ Reply(p, [r EXCEPT !.oracle = out], "NotAMember")
              /\ UNCHANGED user_tasks
         ELSE /\ user_tasks' = Append(user_tasks,
                                      [user_id |-> r.user_id, task_id |-> r.task_id])
              /\ Goto(p, [r EXCEPT !.pc = "count", !.oracle = out])
    /\ UNCHANGED <<env, tasks, claimed, spinCredits, faults, started, nextId, users,
                   calls, p0Only, apiOnly, hist>>

\* the PATCH of the task's current_users
API_handleClaimTask_count(p) ==
    LET r == req[p]
        taskData == r.taskRows[1]
    IN
    /\ rev = "api" /\ r.type = "claimTask" /\ r.pc = "count"
    /\ tasks' = Patch(tasks, r.task_id, [current_users |-> taskData.current_users + 1])
    /\ Goto(p, [r EXCEPT !.pc = "credit", !.wrote = taskData.current_users + 1])
    /\ UNCHANGED <<env, user_tasks, claimed, spinCredits, faults, started, nextId, users,
                   calls, p0Only, apiOnly, hist>>

\* the PATCH of the user's balance, the commission, the response
API_handleClaimTask_credit(p) ==
    LET r == req[p]
        user == r.rows[1]
        reward == r.taskRows[1].reward
        newBalance == user.balance + reward
    IN
    /\ rev = "api" /\ r.type = "claimTask" /\ r.pc = "credit"
    /\ users' = Patch(users, r.user_id, [balance |-> newBalance, last_activity |-> now])
    /\ calls' = IF user.ref_by # Null
                THEN Append(calls, [referral_id |-> user.ref_by, user_id |-> r.user_id,
                                    amount |-> reward])
                ELSE calls
    /\ ledger' = [ledger EXCEPT ![r.user_id] = @ + reward]
    /\ claimed' = [claimed EXCEPT ![<<r.user_id, r.task_id>>] = @ + 1]
    /\ Reply(p, [r EXCEPT !.delta = newBalance - user.balance], "ok")
    /\ UNCHANGED <<env, tasks, user_tasks, spinCredits, faults, started, nextId,
                   p0Only, apiOnly, consumed, paid, okCount>>

\* ===================================================== commission failures

CommissionTypes == {"commission", "processCommission"}

\* a catch block that sends the failed settlement off again
commissionCatch_retry(q, r) ==
    Append(q, [referral_id |-> r.referral_id, user_id |-> r.user_id, amount |-> r.amount])

\* The queue of commission work after a settlement has failed.  The catch block of
\* processCommission logs and returns { ok: false }, that of handleCommission logs and
\* answers 500, and the .catch of the caller logs: nothing is sent off again.
commissionCatch(q, r) == q

\* A store call of handleCommission throws: the read of the referrer (pc = "checks"), or
\* the PATCH or the POST (pc = "record", the balance being written or not); the catch
\* block answers 500.
P0_handleCommission_catch(p) ==
    LET r == req[p] IN
    /\ rev = "p0" /\ r.type = "commission" /\ r.pc \in {"checks", "record"}
    /\ faults > 0
    /\ faults' = faults - 1
    /\ calls' = commissionCatch(calls, r)
    /\ Reply(p, r, "UpstreamFailure")
    /\ UNCHANGED <<env, taskVars, spinCredits, started, nextId, users, p0Only, apiOnly, hist>>

\* a store call of processCommission throws; the catch block returns { ok: false }
API_processCommission_catch(p) ==
    LET r == req[p] IN
    /\ rev = "api" /\ r.type = "processCommission" /\ r.pc \in {"checks", "record"}
    /\ faults > 0
    /\ faults' = faults - 1
    /\ calls' = commissionCatch(calls, r)
    /\ Reply(p, r, "UpstreamFailure")
    /\ UNCHANGED <<env, taskVars, spinCredits, started, nextId, users, p0Only, apiOnly, hist>>

\* ================================================================ the router

\* what a request carries as initData; validateInitData accepts the first only
InitDataInputs == {"valid", "missing", "invalid"}

validateInitData(initData) == initData = "valid"

\* the request types of a revision that pass through the initData check
RoutedTypes ==
    IF rev = "p0"
    THEN {"getUserData", "requestActionId", "watchAd", "preSpin", "spinResult", "withdraw",
          "completeTask", "getTasks"}
    ELSE {"getUserData", "register", "watchAd", "preSpin", "spinResult", "withdraw",
          "getTasks", "claimTask"}

\* the router: body.type !== 'commission' && (!body.initData || !validateInitData(...))
handler_unauthenticated(p, U) ==
    /\ CanStart(p)
    /\ \E u \in U, type \in RoutedTypes, initData \in InitDataInputs :
         /\ ~validateInitData(initData)
         /\ Reply(p, [Idle EXCEPT !.type = type, !.user_id = u, !.arrival = now,
                                  !.initData = initData], "Unauthenticated")
    /\ started' = started + 1
    /\ UNCHANGED <<env, more, nextId, users, calls, p0Only, apiOnly, hist>>

\* the commission amounts a client sends, in hundredths: the body is the client's, so
\* the amount has either sign
CommissionInputs == {Units(1000), 0 - Units(10)}

\* part_000: a client sends a request of type 'commission'; the router lets it through to
\* handleCommission whatever its initData, and the handler reads the referrer
P0_handler_commission(p, U) ==
    /\ rev = "p0" /\ CanStart(p)
    /\ \E ref \in U, u \in U, amount \in CommissionInputs, initData \in InitDataInputs :
         /\ ~validateInitData(initData)
         /\ Goto(p, [Idle EXCEPT !.type = "commission", !.pc = "checks",
                                 !.referral_id = ref, !.user_id = u, !.amount = amount,
                                 !.arrival = now, !.initData = initData,
                                 !.rows = SelectById(users, ref)])
    /\ started' = started + 1
    /\ UNCHANGED <<env, more, nextId, users, calls, p0Only, apiOnly, hist>>

\* api: a client sends a request of type 'commission'; handleCommission answers 403
API_handleCommission(p, U) ==
    /\ rev = "api" /\ CanStart(p)
    /\ \E ref \in U, u \in U, amount \in CommissionInputs, initData \in InitDataInputs :
         /\ ~validateInitData(initData)
         /\ Reply(p, [Idle EXCEPT !.type = "commission", !.referral_id = ref,
                                  !.user_id = u, !.amount = amount, !.arrival = now,
                                  !.initData = initData], "Forbidden")
    /\ started' = started + 1
    /\ UNCHANGED <<env, more, nextId, users, calls, p0Only, apiOnly, hist>>

\* ============================================== failures of the cooldown read

\* checkRateLimit: its store read throws; the catch block logs and returns { ok: true },
\* which is what the function returns when it finds no row
API_checkRateLimit_catch(p) ==
    LET r == req[p] IN
    /\ rev = "api" /\ r.type \in {"preSpin", "claimTask"} /\ r.pc = "rate"
    /\ ~r.rateError
    /\ faults > 0
    /\ faults' = faults - 1
    /\ Goto(p, [r EXCEPT !.rows = <<>>, !.rateError = TRUE])
    /\ UNCHANGED <<env, taskVars, spinCredits, started, nextId, users, calls, p0Only,
                   apiOnly, hist>>

\* handleRequestActionId: the read of the row that holds last_activity throws; the catch
\* block answers 500
P0_handleRequestActionId_catch(p) ==
    LET r == req[p] IN
    /\ rev = "p0" /\ r.type = "requestActionId" /\ r.pc = "checks"
    /\ faults > 0
    /\ faults' = faults - 1
    /\ Reply(p, [r EXCEPT !.rows = <<>>, !.rateError = TRUE], "UpstreamFailure")
    /\ UNCHANGED <<env, taskVars, spinCredits, started, nextId, users, calls, p0Only,
                   apiOnly, hist>>

\* handleCompleteTask: the read of the row that holds last_activity throws; the catch
\* block answers 500
P0_handleCompleteTask_catch(p) ==
    LET r == req[p] IN
    /\ rev = "p0" /\ r.type = "completeTask" /\ r.pc = "checks"
    /\ faults > 0
    /\ faults' = faults - 1
    /\ Reply(p, [r EXCEPT !.rows = <<>>, !.rateError = TRUE], "UpstreamFailure")
    /\ UNCHANGED <<env, taskVars, spinCredits, started, nextId, users, calls, p0Only,
                   apiOnly, hist>>

\* ================================================== failures of a withdrawal

\* a catch block that files the withdrawal all the same
withdrawCatch_record(records, r) ==
    Append(records, [user_id |-> r.user_id, amount |-> r.amount, status |-> "failed"])

\* The withdrawal table after a store call of handleWithdraw has thrown: the catch block
\* logs and answers 500, it writes nothing.
withdrawCatch(records, r) == records

\* part_000, handleWithdraw: the PATCH of the debited balance throws (pc = "checks", the
\* checks having passed) or the POST to withdrawals throws (pc = "record"); the catch block
\* answers 500
P0_handleWithdraw_catch(p) ==
    LET r0 == req[p]
        pass == /\ P0_UserError(r0.rows) = "" /\ r0.amount > 0
                /\ ~insufficientBalance(r0.rows[1].balance, r0.amount) /\ r0.binanceOk
        r == IF r0.pc = "checks" THEN [r0 EXCEPT !.balanceRead = r0.rows[1].balance] ELSE r0
    IN
    /\ rev = "p0" /\ r0.type = "withdraw" /\ r0.pc \in {"checks", "record"}
    /\ r0.pc = "checks" => pass
    /\ faults > 0
    /\ faults' = faults - 1
    /\ withdrawals' = withdrawCatch(withdrawals, r)
    /\ Reply(p, r, "UpstreamFailure")
    /\ UNCHANGED <<env, taskVars, spinCredits, started, nextId, users, calls, actionIdStore,
                   timers, transactions, apiOnly, hist>>

\* api, handleWithdraw: the PATCH of the debited balance throws (pc = "checks", the checks
\* having passed) or the POST to withdrawal_requests throws (pc = "record"); the catch
\* block answers 500
API_handleWithdraw_catch(p) ==
    LET r0 == req[p]
        pass == /\ r0.rows # <<>> /\ ~r0.rows[1].is_banned
                /\ ~insufficientBalance(r0.rows[1].balance, r0.amount)
        r == IF r0.pc = "checks" THEN [r0 EXCEPT !.balanceRead = r0.rows[1].balance] ELSE r0
    IN
    /\ rev = "api" /\ r0.type = "withdraw" /\ r0.pc \in {"checks", "record"}
    /\ r0.pc = "checks" => pass
    /\ faults > 0
    /\ faults' = faults - 1
    /\ withdrawal_requests' = withdrawCatch(withdrawal_requests, r)
    /\ Reply(p, r, "UpstreamFailure")
    /\ UNCHANGED <<env, taskVars, spinCredits, started, nextId, users, calls, p0Only,
                   action_tokens, commission_history, hist>>

\* ============================================================ api: handleRegister

\* the row handleRegister inserts for a new user: ref_by ? parseInt(ref_by) : null
API_newUser(ref_by, t) ==
    [balance |-> 0, ads_watched_today |-> 0, spins_today |-> 0, ref_by |-> ref_by,
     is_banned |-> FALSE, last_activity |-> t, ads_limit_reached_at |-> Null,
     spins_limit_reached_at |-> Null]

\* handleRegister up to the read of the user's row; ref_by is body.ref_by
API_handleRegister_get(p, U) ==
    /\ rev = "api" /\ CanStart(p)
    /\ \E u \in U, ref_by \in UserIds \cup {Null} :
         Goto(p, [Idle EXCEPT !.type = "register", !.pc = "checks", !.user_id = u,
                              !.referral_id = ref_by, !.arrival = now,
                              !.rows = SelectById(users, u)])
    /\ started' = started + 1
    /\ UNCHANGED <<env, more, nextId, users, calls, p0Only, apiOnly, hist>>

\* handleRegister after the read: the POST of the new row (the primary key refuses a
\* second row with the same id), or the answer for a user that exists
API_handleRegister_post(p) ==
    LET r == req[p] IN
    /\ rev = "api" /\ r.type = "register" /\ r.pc = "checks"
    /\ IF r.rows = <<>>
       THEN IF r.user_id \in DOMAIN users
            THEN /\ Reply(p, r, "UpstreamFailure")
                 /\ UNCHANGED <<users, okCount, ledger>>
            ELSE /\ users' = users @@ (r.user_id :> API_newUser(r.referral_id, now))
                 /\ okCount' = [okCount EXCEPT ![r.user_id] = [ads |-> 0, spins |-> 0]]
                 /\ ledger' = [ledger EXCEPT ![r.user_id] = 0]
                 /\ Reply(p, r, "ok")
       ELSE /\ Reply(p, r, IF r.rows[1].is_banned THEN "Banned" ELSE "ok")
            /\ UNCHANGED <<users, okCount, ledger>>
    /\ UNCHANGED <<env, more, started, nextId, calls, p0Only, apiOnly, consumed, paid>>

\* ------------------------------------------------------------- environment

\* time passes
Tick(D, max) ==
    /\ ticks < max
    /\ \E d \in D : now' = now + d
    /\ ticks' = ticks + 1
    /\ UNCHANGED <<rev, more, started, nextId, users, req, calls, last, accepted, p0Only,
                   apiOnly, hist>>

\* ------------------------------------------------------------ initial states

\* part_000: an account that has watched c[1] ads and won c[2] spins of the first sector
P0_InitUser(c, referral) ==
    [balance |-> Units(REWARD_PER_AD * c[1] + P0_SPIN_SECTORS[1] * c[2]),
     referral_id |-> referral, is_banned |-> FALSE, last_activity |-> LastActive,
     daily_ads_watched |-> c[1], daily_spins |-> c[2],
     reset_timestamp |-> RESET_INTERVAL_MS]

\* api: an account that has won n spins of the first sector (handleWatchAd never counts an ad)
API_InitUser(n, ref_by) ==
    [balance |-> Units(SPIN_SECTORS[1] * n), ads_watched_today |-> 0, spins_today |-> n,
     ref_by |-> ref_by, is_banned |-> FALSE, last_activity |-> LastActive,
     ads_limit_reached_at |-> Null,
     spins_limit_reached_at |-> IF n >= DAILY_MAX_SPINS THEN LastActive ELSE Null]

\* the quota counters an account of the initial state has run up: <<ads, spins>>
P0_InitCounters == {<<0, 0>>, <<DAILY_MAX_ADS - 1, DAILY_MAX_SPINS - 1>>,
                    <<DAILY_MAX_ADS, DAILY_MAX_SPINS>>}
API_InitSpins == {DAILY_MAX_SPINS - 1, DAILY_MAX_SPINS}

InitCommon ==
    /\ now = StartTime
    /\ ticks = 0
    /\ started = 0
    /\ nextId = 1
    /\ req = [p \in Procs |-> Idle]
    /\ calls = <<>>
    /\ last = NoResponse
    /\ accepted = [u \in UserIds |-> Null]
    /\ actionIdStore = <<>>
    /\ timers = {}
    /\ transactions = <<>>
    /\ withdrawals = <<>>
    /\ action_tokens = <<>>
    /\ commission_history = <<>>
    /\ withdrawal_requests = <<>>
    /\ consumed = [id \in 1..(MaxTokens + 1) |-> 0]
    /\ paid = [id \in 1..(MaxTokens + 1) |-> 0]

\* the task tables, the history kept about them and the store faults a scenario starts with
InitMore(taskTable, f) ==
    /\ tasks = taskTable
    /\ user_tasks = <<>>
    /\ claimed = [pair \in UserIds \X TaskIds |-> 0]
    /\ spinCredits = {}
    /\ faults = f

Ads(row) == IF rev = "p0" THEN row.daily_ads_watched ELSE row.ads_watched_today
Spins(row) == IF rev = "p0" THEN row.daily_spins ELSE row.spins_today

InitHistory ==
    /\ okCount = [u \in UserIds |->
                    IF u \in DOMAIN users
                    THEN [ads |-> Ads(users[u]), spins |-> Spins(users[u])]
                    ELSE [ads |-> 0, spins |-> 0]]
    /\ ledger = [u \in UserIds |-> IF u \in DOMAIN users THEN users[u].balance ELSE 0]

\* the token scenario: both accounts exist, account 1 referred by account 2, nothing used
InitTok ==
    /\ rev \in {"p0", "api"}
    /\ InitCommon
    /\ users = IF rev = "p0"
               THEN (1 :> P0_InitUser(<<0, 0>>, 2)) @@ (2 :> P0_InitUser(<<0, 0>>, Null))
               ELSE (1 :> API_InitUser(0, 2)) @@ (2 :> API_InitUser(0, Null))
    /\ InitHistory
    /\ InitMore(<<>>, 0)

\* the quota scenario: account 2 exists; account 1 was referred by it and is near or at
\* its quota, or (part_000) does not exist yet
InitQuota ==
    /\ rev \in {"p0", "api"}
    /\ InitCommon
    /\ IF rev = "p0"
       THEN \/ \E c \in P0_InitCounters :
                 users = (1 :> P0_InitUser(c, 2)) @@ (2 :> P0_InitUser(<<0, 0>>, Null))
            \/ users = (2 :> P0_InitUser(<<0, 0>>, Null))
       ELSE \E n \in API_InitSpins :
                 users = (1 :> API_InitUser(n, 2)) @@ (2 :> API_InitUser(0, Null))
    /\ InitHistory
    /\ InitMore(<<>>, 0)

NextTok ==
    \/ P0_cleanupTimer
    \/ \E p \in Procs :
         \/ P0_handleRequestActionId_get(p, UserIds, {"watchAd", "withdraw"})
         \/ P0_handleRequestActionId_issue(p)
         \/ P0_handlePreSpin_get(p, UserIds)
         \/ P0_handlePreSpin_issue(p)
         \/ P0_handleWatchAd_consume(p, UserIds)
         \/ P0_handleWatchAd_commit(p)
         \/ P0_handleCommission_get(p)
         \/ P0_handleCommission_credit(p)
         \/ P0_handleCommission_record(p)
         \/ P0_handleSpinResult_consume(p, UserIds)
         \/ P0_handleSpinResult_commit(p)
         \/ P0_handleWithdraw_consume(p, UserIds)
         \/ P0_handleWithdraw_debit(p)
         \/ P0_handleWithdraw_record(p)
         \/ API_handlePreSpin_get(p, UserIds, API_ActionTypes)
         \/ API_handlePreSpin_post(p)
         \/ API_handlePreSpin_payload(p)
         \/ API_handleWatchAd_get(p, UserIds)
         \/ API_handleWatchAd_validate(p)
         \/ API_handleWatchAd_commit(p)
         \/ API_handleSpinResult_get(p, UserIds)
         \/ API_handleSpinResult_validate(p)
         \/ API_handleSpinResult_commit(p)
         \/ API_processCommission_get(p)
         \/ API_processCommission_credit(p)
         \/ API_processCommission_record(p)
         \/ API_handleWithdraw_get(p, UserIds)
         \/ API_handleWithdraw_validate(p)
         \/ API_handleWithdraw_debit(p)
         \/ API_handleWithdraw_record(p)
    \/ Tick(TokenDeltas, MaxTokTicks)

NextQuota ==
    \/ P0_cleanupTimer
    \/ \E p \in Procs :
         \/ P0_handleRequestActionId_get(p, {1}, {"watchAd"})
         \/ P0_handleRequestActionId_issue(p)
         \/ P0_handlePreSpin_get(p, {1})
         \/ P0_handlePreSpin_issue(p)
         \/ P0_handleWatchAd_consume(p, {1})
         \/ P0_handleWatchAd_commit(p)
         \/ P0_handleCommission_get(p)
         \/ P0_handleCommission_credit(p)
         \/ P0_handleCommission_record(p)
         \/ P0_handleSpinResult_consume(p, {1})
         \/ P0_handleSpinResult_commit(p)
         \/ P0_handleGetUserData_get(p, {1})
         \/ P0_handleGetUserData_update(p)
         \/ P0_handleGetUserData_insert(p)
         \/ API_handlePreSpin_get(p, {1}, {"spin"})
         \/ API_handlePreSpin_post(p)
         \/ API_handlePreSpin_payload(p)
         \/ API_handleSpinResult_get(p, {1})
         \/ API_handleSpinResult_validate(p)
         \/ API_handleSpinResult_commit(p)
         \/ API_processCommission_get(p)
         \/ API_processCommission_credit(p)
         \/ API_processCommission_record(p)
         \/ API_handleGetUserData_get(p, {1})
         \/ API_handleGetUserData_limits(p)
         \/ API_handleGetUserData_reset(p)
         \/ API_handleGetUserData_finish(p)
    \/ Tick(QuotaDeltas, MaxQuotaTicks)

\* the task scenario: account 1, referred by account 2, claims the two tasks; task 1 asks
\* for membership of a channel, task 2 (part_000) for none
P0_InitTask(type) ==
    [reward |-> Units(TaskReward), max_users |-> MaxTaskUsers, current_users |-> 0,
     type |-> type, is_active |-> TRUE]

API_InitTask ==
    [reward |-> Units(TaskReward), max_users |-> MaxTaskUsers, current_users |-> 0,
     channel_username |-> "@channel"]

InitTask ==
    /\ rev \in {"p0", "api"}
    /\ InitCommon
    /\ users = IF rev = "p0"
               THEN (1 :> P0_InitUser(<<0, 0>>, 2)) @@ (2 :> P0_InitUser(<<0, 0>>, Null))
               ELSE (1 :> API_InitUser(0, 2)) @@ (2 :> API_InitUser(0, Null))
    /\ InitHistory
    /\ InitMore(IF rev = "p0"
                THEN (1 :> P0_InitTask("join_channel")) @@ (2 :> P0_InitTask("visit"))
                ELSE (1 :> API_InitTask) @@ (2 :> API_InitTask), 0)

NextTask ==
    \/ \E p \in Procs :
         \/ P0_handleCompleteTask_get(p, {1}, TaskIds)
         \/ P0_handleCompleteTask_completed(p)
         \/ P0_handleCompleteTask_task(p)
         \/ P0_handleCompleteTask_verify(p)
         \/ P0_handleCompleteTask_count(p)
         \/ P0_handleCompleteTask_record(p)
         \/ P0_handleCompleteTask_credit(p)
         \/ API_handleClaimTask_get(p, {1}, TaskIds)
         \/ API_handleClaimTask_user(p)
         \/ API_handleClaimTask_completed(p)
         \/ API_handleClaimTask_task(p)
         \/ API_handleClaimTask_verify(p)
         \/ API_handleClaimTask_record(p)
         \/ API_handleClaimTask_count(p)
         \/ API_handleClaimTask_credit(p)
         \/ API_processCommission_get(p)
         \/ API_processCommission_credit(p)
         \/ API_processCommission_record(p)
    \/ Tick(TaskDeltas, MaxTaskTicks)

\* an account whose ban flag an administrator has set
Banned(row) == [row EXCEPT !.is_banned = TRUE]

\* what a scenario's referrer account is: in good standing, banned, or deleted
ReferrerStates == {"ok", "banned", "missing"}

\* the referral scenario: account 1 earns rewards; its referrer, account 2, is in good
\* standing, banned or missing; one store call of a settlement may fail
InitRef ==
    /\ rev \in {"p0", "api"}
    /\ InitCommon
    /\ \E s \in ReferrerStates :
         LET one == IF rev = "p0" THEN P0_InitUser(<<0, 0>>, 2) ELSE API_InitUser(0, 2)
             two == IF rev = "p0" THEN P0_InitUser(<<0, 0>>, Null) ELSE API_InitUser(0, Null)
         IN  users = IF s = "ok" THEN (1 :> one) @@ (2 :> two)
                     ELSE IF s = "banned" THEN (1 :> one) @@ (2 :> Banned(two))
                     ELSE (1 :> one)
    /\ InitHistory
    /\ InitMore(<<>>, MaxFaults)

NextRef ==
    \E p \in Procs :
       \/ P0_handleRequestActionId_get(p, {1}, {"watchAd"})
       \/ P0_handleRequestActionId_issue(p)
       \/ P0_handleWatchAd_consume(p, {1})
       \/ P0_handleWatchAd_commit(p)
       \/ P0_handleCommission_get(p)
       \/ P0_handleCommission_credit(p)
       \/ P0_handleCommission_record(p)
       \/ P0_handleCommission_catch(p)
       \/ API_handlePreSpin_get(p, {1}, {"spin"})
       \/ API_handlePreSpin_post(p)
       \/ API_handlePreSpin_payload(p)
       \/ API_handleSpinResult_get(p, {1})
       \/ API_handleSpinResult_validate(p)
       \/ API_handleSpinResult_commit(p)
       \/ API_processCommission_get(p)
       \/ API_processCommission_credit(p)
       \/ API_processCommission_record(p)
       \/ API_processCommission_catch(p)

\* the ban scenario: account 1 is banned, near or at its quota, and sends requests of
\* every type
InitBan ==
    /\ rev \in {"p0", "api"}
    /\ InitCommon
    /\ IF rev = "p0"
       THEN \E c \in P0_InitCounters : users = (1 :> Banned(P0_InitUser(c, Null)))
       ELSE \E n \in API_InitSpins : users = (1 :> Banned(API_InitUser(n, Null)))
    /\ InitHistory
    /\ InitMore(IF rev = "p0"
                THEN (1 :> P0_InitTask("join_channel")) @@ (2 :> P0_InitTask("visit"))
                ELSE (1 :> API_InitTask) @@ (2 :> API_InitTask), 0)

NextBan ==
    \/ \E p \in Procs :
         \/ P0_handleRequestActionId_get(p, {1}, {"watchAd", "withdraw"})
         \/ P0_handleRequestActionId_issue(p)
         \/ P0_handlePreSpin_get(p, {1})
         \/ P0_handlePreSpin_issue(p)
         \/ P0_handleGetUserData_get(p, {1})
         \/ P0_handleGetUserData_update(p)
         \/ P0_handleCompleteTask_get(p, {1}, TaskIds)
         \/ P0_handleCompleteTask_completed(p)
         \/ API_handlePreSpin_get(p, {1}, API_ActionTypes)
         \/ API_handlePreSpin_post(p)
         \/ API_handlePreSpin_payload(p)
         \/ API_handleWatchAd_get(p, {1})
         \/ API_handleWatchAd_validate(p)
         \/ API_handleWatchAd_commit(p)
         \/ API_handleSpinResult_get(p, {1})
         \/ API_handleSpinResult_validate(p)
         \/ API_handleSpinResult_commit(p)
         \/ API_handleWithdraw_get(p, {1})
         \/ API_handleWithdraw_validate(p)
         \/ API_handleWithdraw_debit(p)
         \/ API_handleGetUserData_get(p, {1})
         \/ API_handleGetUserData_limits(p)
         \/ API_handleGetUserData_reset(p)
         \/ API_handleGetUserData_finish(p)
         \/ API_handleClaimTask_get(p, {1}, TaskIds)
         \/ API_handleClaimTask_user(p)
         \/ API_handleClaimTask_completed(p)
    \/ Tick(BanDeltas, MaxBanTicks)

\* the router scenario: requests without a valid initData, requests of type 'commission'
\* sent by a client, and getUserData requests that pass the check
NextAuth ==
    \E p \in Procs :
       \/ handler_unauthenticated(p, UserIds)
       \/ P0_handler_commission(p, UserIds)
       \/ P0_handleCommission_credit(p)
       \/ P0_handleCommission_record(p)
       \/ API_handleCommission(p, UserIds)
       \/ P0_handleGetUserData_get(p, UserIds)
       \/ P0_handleGetUserData_update(p)
       \/ API_handleGetUserData_get(p, UserIds)
       \/ API_handleGetUserData_limits(p)
       \/ API_handleGetUserData_reset(p)
       \/ API_handleGetUserData_finish(p)

SpecTok == InitTok /\ [][NextTok]_vars
SpecRef == InitRef /\ [][NextRef]_vars
SpecBan == InitBan /\ [][NextBan]_vars
SpecAuth == InitTok /\ [][NextAuth]_vars
SpecTask == InitTask /\ [][NextTask]_vars
SpecQuota == InitQuota /\ [][NextQuota]_vars


\* ------------------------------------------------- the reclamation scenario
\* Tokens are issued and none is ever presented; the clock jumps past the validity window.
NextReclaim ==
    \/ P0_cleanupTimer
    \/ \E p \in Procs :
         \/ P0_handleRequestActionId_get(p, {1}, {"watchAd"})
         \/ P0_handleRequestActionId_issue(p)
         \/ API_handlePreSpin_get(p, {1}, {"watchAd", "spin"})
         \/ API_handlePreSpin_post(p)
         \/ API_handlePreSpin_payload(p)
    \/ Tick(TokenDeltas, MaxTokTicks)

\* what the runtime guarantees: a timer that is due fires, and a handler that awaits a
\* store call goes on when the call returns.  Nothing makes a client send a request.
FairReclaim ==
    /\ WF_vars(P0_cleanupTimer)
    /\ \A p \in Procs :
         WF_vars(P0_handleRequestActionId_issue(p) \/ API_handlePreSpin_post(p)
                    \/ API_handlePreSpin_payload(p))

SpecReclaim == InitTok /\ [][NextReclaim]_vars /\ FairReclaim

\* --------------------------------------------------- the capacity scenario
\* the accounts that completed a task before the run begins: all places but one are taken
EarlierUsers == 3..(MaxTaskUsers + 1)

\* the completion rows of the earlier accounts, task by task
EarlierRecords ==
    LET n == Cardinality(EarlierUsers) IN
    [i \in 1..(n * Cardinality(TaskIds)) |->
        [user_id |-> 3 + ((i - 1) % n), task_id |-> 1 + ((i - 1) \div n)]]

\* accounts 1 and 2 claim tasks that have one place left
InitCap ==
    /\ rev \in {"p0", "api"}
    /\ InitCommon
    /\ users = IF rev = "p0"
               THEN (1 :> P0_InitUser(<<0, 0>>, 2)) @@ (2 :> P0_InitUser(<<0, 0>>, Null))
               ELSE (1 :> API_InitUser(0, 2)) @@ (2 :> API_InitUser(0, Null))
    /\ InitHistory
    /\ tasks = [t \in TaskIds |->
                  [(IF rev = "api" THEN API_InitTask
                    ELSE IF t = 1 THEN P0_InitTask("join_channel") ELSE P0_InitTask("visit"))
                   EXCEPT !.current_users = Cardinality(EarlierUsers)]]
    /\ user_tasks = EarlierRecords
    /\ claimed = [pair \in UserIds \X TaskIds |-> 0]
    /\ spinCredits = {}
    /\ faults = 0

NextCap ==
    \E p \in Procs :
       \/ P0_handleCompleteTask_get(p, UserIds, TaskIds)
       \/ P0_handleCompleteTask_completed(p)
       \/ P0_handleCompleteTask_task(p)
       \/ P0_handleCompleteTask_verify(p)
       \/ P0_handleCompleteTask_count(p)
       \/ P0_handleCompleteTask_record(p)
       \/ P0_handleCompleteTask_credit(p)
       \/ API_handleClaimTask_get(p, UserIds, TaskIds)
       \/ API_handleClaimTask_user(p)
       \/ API_handleClaimTask_completed(p)
       \/ API_handleClaimTask_task(p)
       \/ API_handleClaimTask_verify(p)
       \/ API_handleClaimTask_record(p)
       \/ API_handleClaimTask_count(p)
       \/ API_handleClaimTask_credit(p)
       \/ API_processCommission_get(p)
       \/ API_processCommission_credit(p)
       \/ API_processCommission_record(p)

SpecCap == InitCap /\ [][NextCap]_vars

\* ------------------------------------------------------ the reset scenario
\* The rows resetDailyLimitsIfExpired is applied to: each counter below, at or above its
\* maximum, each lockout timestamp null or set at the start of the run.
AdsInputs == {DAILY_MAX_ADS - 1, DAILY_MAX_ADS, DAILY_MAX_ADS + 1}
SpinsInputs == {DAILY_MAX_SPINS - 1, DAILY_MAX_SPINS, DAILY_MAX_SPINS + 1}
LockoutInputs == {Null, StartTime}

InitReset ==
    /\ rev = "api"
    /\ InitCommon
    /\ \E a \in AdsInputs, s \in SpinsInputs, at \in LockoutInputs, st \in LockoutInputs :
         users = (1 :> [API_InitUser(0, Null) EXCEPT
                           !.ads_watched_today = a, !.ads_limit_reached_at = at,
                           !.spins_today = s, !.spins_limit_reached_at = st])
    /\ InitHistory
    /\ InitMore(<<>>, 0)

NextReset ==
    \/ \E p \in Procs :
         \/ API_handleGetUserData_get(p, {1})
         \/ API_handleGetUserData_limits(p)
         \/ API_handleGetUserData_reset(p)
         \/ API_handleGetUserData_finish(p)
    \/ Tick(QuotaDeltas, MaxQuotaTicks)

SpecReset == InitReset /\ [][NextReset]_vars

\* ---------------------------------------------------- the lockout scenario
\* Account 1 is two spins short of its maximum and holds one prepared spin token for each
\* request of the run; the run receives MaxLockRequests spinResult requests.
InitLock ==
    /\ rev = "api"
    /\ now = StartTime
    /\ ticks = 0
    /\ started = MaxRequests - MaxLockRequests
    /\ nextId = MaxTokens + 2
    /\ req = [p \in Procs |-> Idle]
    /\ calls = <<>>
    /\ last = NoResponse
    /\ accepted = [u \in UserIds |-> Null]
    /\ actionIdStore = <<>>
    /\ timers = {}
    /\ transactions = <<>>
    /\ withdrawals = <<>>
    /\ action_tokens = [id \in 1..(MaxTokens + 1) |->
                          [user_id |-> 1, action_type |-> "spin", created_at |-> StartTime,
                           payload |-> <<SPIN_SECTORS[1], 0>>]]
    /\ commission_history = <<>>
    /\ withdrawal_requests = <<>>
    /\ consumed = [id \in 1..(MaxTokens + 1) |-> 0]
    /\ paid = [id \in 1..(MaxTokens + 1) |-> 0]
    /\ users = (1 :> API_InitUser(DAILY_MAX_SPINS - 2, Null))
    /\ InitHistory
    /\ InitMore(<<>>, 0)

NextLock ==
    \E p \in Procs :
       \/ API_handleSpinResult_get(p, {1})
       \/ API_handleSpinResult_validate(p)
       \/ API_handleSpinResult_commit(p)

SpecLock == InitLock /\ [][NextLock]_vars

\* ------------------------------------------------------ the fault scenario
\* account 1 prepares tokens and claims tasks; one read of its last_activity may fail
InitFault ==
    /\ rev \in {"p0", "api"}
    /\ InitCommon
    /\ users = IF rev = "p0"
               THEN (1 :> P0_InitUser(<<0, 0>>, 2)) @@ (2 :> P0_InitUser(<<0, 0>>, Null))
               ELSE (1 :> API_InitUser(0, 2)) @@ (2 :> API_InitUser(0, Null))
    /\ InitHistory
    /\ InitMore(IF rev = "p0"
                THEN (1 :> P0_InitTask("join_channel")) @@ (2 :> P0_InitTask("visit"))
                ELSE (1 :> API_InitTask) @@ (2 :> API_InitTask), MaxFaults)

NextFault ==
    \E p \in Procs :
       \/ P0_handleRequestActionId_get(p, {1}, {"watchAd"})
       \/ P0_handleRequestActionId_issue(p)
       \/ P0_handleRequestActionId_catch(p)
       \/ P0_handleCompleteTask_get(p, {1}, TaskIds)
       \/ P0_handleCompleteTask_completed(p)
       \/ P0_handleCompleteTask_task(p)
       \/ P0_handleCompleteTask_verify(p)
       \/ P0_handleCompleteTask_count(p)
       \/ P0_handleCompleteTask_record(p)
       \/ P0_handleCompleteTask_credit(p)
       \/ P0_handleCompleteTask_catch(p)
       \/ API_handlePreSpin_get(p, {1}, {"watchAd", "spin"})
       \/ API_handlePreSpin_post(p)
       \/ API_handlePreSpin_payload(p)
       \/ API_checkRateLimit_catch(p)
       \/ API_handleClaimTask_get(p, {1}, TaskIds)
       \/ API_handleClaimTask_user(p)
       \/ API_handleClaimTask_completed(p)
       \/ API_handleClaimTask_task(p)
       \/ API_handleClaimTask_verify(p)
       \/ API_handleClaimTask_record(p)
       \/ API_handleClaimTask_count(p)
       \/ API_handleClaimTask_credit(p)
       \/ API_processCommission_get(p)
       \/ API_processCommission_credit(p)
       \/ API_processCommission_record(p)

SpecFault == InitFault /\ [][NextFault]_vars

\* ---------------------------------------------------- the withdrawal scenario
\* Account 1 has won one spin of the first sector, prepares withdraw tokens and sends
\* withdraw requests, which may run concurrently; one store write of a withdrawal may fail.
InitWd ==
    /\ rev \in {"p0", "api"}
    /\ InitCommon
    /\ users = IF rev = "p0"
               THEN (1 :> P0_InitUser(<<0, 1>>, 2)) @@ (2 :> P0_InitUser(<<0, 0>>, Null))
               ELSE (1 :> API_InitUser(1, 2)) @@ (2 :> API_InitUser(0, Null))
    /\ InitHistory
    /\ InitMore(<<>>, MaxFaults)

NextWd ==
    \E p \in Procs :
       \/ P0_handleRequestActionId_get(p, {1}, {"withdraw"})
       \/ P0_handleRequestActionId_issue(p)
       \/ P0_handleWithdraw_consume(p, {1})
       \/ P0_handleWithdraw_debit(p)
       \/ P0_handleWithdraw_record(p)
       \/ P0_handleWithdraw_catch(p)
       \/ API_handlePreSpin_get(p, {1}, {"withdraw"})
       \/ API_handlePreSpin_post(p)
       \/ API_handleWithdraw_get(p, {1})
       \/ API_handleWithdraw_validate(p)
       \/ API_handleWithdraw_debit(p)
       \/ API_handleWithdraw_record(p)
       \/ API_handleWithdraw_catch(p)

SpecWd == InitWd /\ [][NextWd]_vars

\* -------------------------------------------------- the registration scenario
\* Account 2 exists; account 1 registers, naming account 1, account 2 or nobody as its
\* referrer, and then earns a reward.
InitReg ==
    /\ rev \in {"p0", "api"}
    /\ InitCommon
    /\ users = IF rev = "p0" THEN (2 :> P0_InitUser(<<0, 0>>, Null))
               ELSE (2 :> API_InitUser(0, Null))
    /\ InitHistory
    /\ InitMore(<<>>, 0)

NextReg ==
    \/ \E p \in Procs :
         \/ P0_handleGetUserData_get(p, {1})
         \/ P0_handleGetUserData_update(p)
         \/ P0_handleGetUserData_insert(p)
         \/ P0_handleRequestActionId_get(p, {1}, {"watchAd"})
         \/ P0_handleRequestActionId_issue(p)
         \/ P0_handleWatchAd_consume(p, {1})
         \/ P0_handleWatchAd_commit(p)
         \/ P0_handleCommission_get(p)
         \/ P0_handleCommission_credit(p)
         \/ P0_handleCommission_record(p)
         \/ API_handleRegister_get(p, {1})
         \/ API_handleRegister_post(p)
         \/ API_handlePreSpin_get(p, {1}, {"spin"})
         \/ API_handlePreSpin_post(p)
         \/ API_handlePreSpin_payload(p)
         \/ API_handleSpinResult_get(p, {1})
         \/ API_handleSpinResult_validate(p)
         \/ API_handleSpinResult_commit(p)
         \/ API_processCommission_get(p)
         \/ API_processCommission_credit(p)
         \/ API_processCommission_record(p)
    \/ Tick(TaskDeltas, MaxTaskTicks)

SpecReg == InitReg /\ [][NextReg]_vars
\* ------------------------------------------------------------------ properties

\* the ids the registry of the running revision holds
Tokens == DOMAIN actionIdStore \cup DOMAIN action_tokens

\* no request is being handled and no commission is under way
Quiescent == calls = <<>> /\ \A p \in Procs : IsIdle(p)

RejectedToken == {"InvalidOrExpiredToken", "TokenExpired"}

\* C1: in part_000 at most one consumeActionId call succeeds for an issued id, the id is
\* gone from the Map once it has succeeded, and a commit that presents the id after a
\* successful consume fails validation and is answered "invalid or expired token".
C1_SingleUse ==
    rev = "p0" =>
        /\ \A id \in DOMAIN consumed :
              /\ consumed[id] <= 1
              /\ consumed[id] = 1 => id \notin DOMAIN actionIdStore
        /\ \A p \in Procs : req[p].type \in CommitTypes => ~(req[p].replay /\ req[p].tokenOk)
        /\ (last.type \in CommitTypes /\ last.replay) =>
              (~last.tokenOk /\ last.resp = "InvalidOrExpiredToken")

\* a commit of part_000 replayed a consumed token and was turned down
C1_Witness ==
    /\ rev = "p0" /\ last.type \in CommitTypes /\ last.replay
    /\ consumed[last.action_id] = 1 /\ last.resp = "InvalidOrExpiredToken"

\* C2: in src/api/index.js, of the requests that present one action_id at most one passes
\* token validation and goes on to update the balance.
C2_NoConcurrentReplay ==
    rev = "api" => \A id \in DOMAIN paid : paid[id] <= 1

\* C3: a commit with a token older than the validity window is turned down although it is
\* the token's first use, writes no balance and no counter, and leaves the token removed;
\* a token of the right user and kind that is no older than the window passes validation.
C3_Expiry ==
    /\ \A p \in Procs :
          (req[p].type \in CommitTypes /\ req[p].token = "fresh") => req[p].tokenOk
    /\ last.type \in CommitTypes =>
          /\ last.token = "fresh" => last.tokenOk
          /\ last.token = "stale" =>
                /\ ~last.tokenOk /\ last.resp \in RejectedToken
                /\ last.delta = 0 /\ last.wrote = 0
                /\ last.action_id \notin Tokens

\* the first commit to present a token came after the validity window and was turned down
C3_Witness ==
    /\ last.type \in CommitTypes /\ last.token = "stale"
    /\ consumed[last.action_id] = 0 /\ last.resp \in RejectedToken

\* C4: the first commit a run receives being a watchAd with a fresh token of its user, it
\* is answered with success and leaves the balance at 3 and the ad counter at 1; a watchAd
\* that presents a token already used is turned down.
C4_AdClaim ==
    /\ (last.type = "watchAd" /\ last.token = "fresh" /\ ~last.replay /\ started = 1) =>
          /\ last.resp = "ok"
          /\ users[last.user_id].balance = Units(REWARD_PER_AD)
          /\ Ads(users[last.user_id]) = 1
          /\ last.action_id \notin Tokens
    /\ (last.type = "watchAd" /\ last.replay) => last.resp # "ok"

\* C5: no stored ad counter is above 100 and no stored spin counter above 15; a reward
\* commit that read a counter at or above its maximum was turned down and wrote nothing,
\* and one that succeeded read a counter below the maximum and wrote that value plus one.
C5_QuotaBound ==
    /\ \A u \in DOMAIN users :
          Ads(users[u]) <= DAILY_MAX_ADS /\ Spins(users[u]) <= DAILY_MAX_SPINS
    /\ last.type = "watchAd" =>
          /\ last.resp = "QuotaExceeded" =>
                (last.adsRead >= DAILY_MAX_ADS /\ last.wrote = 0 /\ last.delta = 0)
          /\ last.resp = "ok" =>
                (last.adsRead < DAILY_MAX_ADS /\ last.wrote = last.adsRead + 1)
    /\ last.type = "spinResult" =>
          /\ last.resp = "QuotaExceeded" =>
                (last.spinsRead >= DAILY_MAX_SPINS /\ last.wrote = 0 /\ last.delta = 0)
          /\ last.resp = "ok" =>
                (last.spinsRead < DAILY_MAX_SPINS /\ last.wrote = last.spinsRead + 1)

\* a reward commit read its counter at the maximum and was turned down
C5_Witness ==
    /\ last.type \in {"watchAd", "spinResult"} /\ last.resp = "QuotaExceeded"
    /\ last.tokenOk

\* C6: between two resets no more than 100 ad commits and 15 spin commits of a user are
\* answered with success, and once all requests are done every stored balance is the sum
\* of the credits and debits that were applied to it.
C6_NoDoubleReward ==
    /\ \A u \in UserIds :
          okCount[u].ads <= DAILY_MAX_ADS /\ okCount[u].spins <= DAILY_MAX_SPINS
    /\ Quiescent => \A u \in DOMAIN users : users[u].balance = ledger[u]

\* C7: a handler sets a quota counter back to zero only if the counter it read had reached
\* its maximum.
C7_ResetOnlyAtLimit ==
    /\ ("ads" \in last.reset /\ last.adsRead > 0) => last.adsRead >= DAILY_MAX_ADS
    /\ ("spins" \in last.reset /\ last.spinsRead > 0) => last.spinsRead >= DAILY_MAX_SPINS

\* C8: no two commits of one user that arrive less than 3000 ms apart are both answered
\* with success.
C8_RateLimit == ~last.tooSoon

\* C9: a commit turned down for the cooldown leaves its token in the registry.
C9_CooldownKeepsToken ==
    (last.type \in CommitTypes /\ last.resp = "RateLimited") => last.action_id \in Tokens

\* C10: a commission that is applied raises the referrer's balance by exactly 5% of the
\* reward: 0.15 for the ad reward of 3 (part_000, where only ads pay a commission).
C10_CommissionExact ==
    /\ (last.type = "commission" /\ last.resp = "ok") =>
          last.delta * RATE_DEN = Units(REWARD_PER_AD) * RATE_NUM
    /\ (last.type = "processCommission" /\ last.resp = "ok") =>
          last.delta * RATE_DEN = last.amount * RATE_NUM

ClaimTypes == {"completeTask", "claimTask"}

\* the completion records of a (user, task) pair
Records(u, t) ==
    Cardinality({i \in 1..Len(user_tasks) :
                    user_tasks[i].user_id = u /\ user_tasks[i].task_id = t})

\* C13 (as stated): a task claim that arrives after a claim of the same (user, task) pair was
\* answered with success is rejected as already claimed and writes nothing.
C13_AlreadyClaimed ==
    (last.type \in ClaimTypes /\ last.replay) =>
        (last.resp = "AlreadyClaimed" /\ last.delta = 0 /\ last.wrote = 0)

\* C13 (amended): a task claim that arrives after a claim of the same pair was answered with
\* success is rejected, as already claimed or, within the cooldown, as rate-limited; it
\* never gets past the already-claimed check and writes no balance, no counter and no
\* record.
C13_ClaimOnce ==
    /\ \A p \in Procs :
          (req[p].type \in ClaimTypes /\ req[p].replay) =>
              req[p].pc \in {"rate", "checks", "claimed"}
    /\ (last.type \in ClaimTypes /\ last.replay) =>
          /\ last.resp \in {"AlreadyClaimed", "RateLimited"}
          /\ last.delta = 0 /\ last.wrote = 0

\* a second claim of a pair came after the cooldown and was rejected as already claimed
C13_Witness ==
    /\ last.type \in ClaimTypes /\ last.replay /\ last.resp = "AlreadyClaimed"
    /\ claimed[<<last.user_id, last.task_id>>] = 1

\* C14: of the task claims of one (user, task) pair, however they interleave, at most one
\* is answered with success and at most one completion record is created.
C14_OneRecord ==
    \A u \in UserIds, t \in TaskIds : claimed[<<u, t>>] <= 1 /\ Records(u, t) <= 1

\* the withdrawal records of both revisions
WithdrawalRecords == Len(withdrawals) + Len(withdrawal_requests)

\* C15: a withdraw whose amount is greater than the balance its handler read is rejected
\* as insufficient balance and has written no balance; the step that rejects it changes no
\* row of users and adds no withdrawal record.
C15_Insufficient ==
    /\ [](/\ \A p \in Procs :
               (req[p].type = "withdraw" /\ req[p].pc = "record") =>
                   (req[p].balanceRead # NotRead /\ req[p].amount <= req[p].balanceRead)
          /\ (/\ last.type = "withdraw" /\ last.balanceRead # NotRead
              /\ last.amount > last.balanceRead) =>
                (last.resp = "InsufficientBalance" /\ last.delta = 0))
    /\ [][(\E p \in Procs : /\ req[p].type = "withdraw" /\ req[p].pc = "checks"
                             /\ req'[p].pc = "idle"
                             /\ last'.resp = "InsufficientBalance") =>
             (users' = users /\ WithdrawalRecords' = WithdrawalRecords)]_vars

\* a withdraw of more than the balance was rejected
C15_Witness ==
    /\ last.type = "withdraw" /\ last.balanceRead # NotRead
    /\ last.amount > last.balanceRead /\ last.resp = "InsufficientBalance"

\* the step is the balance write of a withdraw request of user u
WithdrawDebit(u) ==
    \E p \in Procs :
       /\ req[p].type = "withdraw" /\ req[p].pc = "checks" /\ req[p].user_id = u
       /\ req'[p].pc = "record"

\* C17: no step lowers a stored balance except the balance write of a withdraw request.
C17_BalanceMonotone ==
    [][\A u \in DOMAIN users :
          (u \in DOMAIN users' /\ users'[u].balance < users[u].balance) => WithdrawDebit(u)]_vars

\* C18: what a successful spinResult credits is the prize fixed when its token was
\* prepared, so two spins for which the server fixed the same are credited the same.
C18_ServerPrize ==
    /\ \A c \in spinCredits : c[2] = c[1]
    /\ \A a, b \in spinCredits : a[1] = b[1] => a[2] = b[2]

\* C20: a task claim whose membership call ended in an error is rejected as not a member;
\* it has written no counter and no balance, and no claim gets past the membership check
\* to the writes with such an outcome.
C20_FailClosed ==
    /\ \A p \in Procs :
          (req[p].type \in ClaimTypes /\ req[p].pc \in {"record", "count", "credit"}) =>
              req[p].oracle \notin OracleErrors
    /\ (last.type \in ClaimTypes /\ last.oracle \in OracleErrors) =>
          (last.resp = "NotAMember" /\ last.delta = 0 /\ last.wrote = 0)

\* the membership call of a task claim failed and the claim was rejected
C20_Witness ==
    last.type \in ClaimTypes /\ last.oracle \in OracleErrors /\ last.resp = "NotAMember"

\* the step is taken by a commission settlement for referee u
SettlementStep(u) ==
    \E p \in Procs :
       /\ req[p].type \in CommissionTypes /\ req[p].user_id = u
       /\ req'[p] # req[p]

\* the referrer of account 1 is missing or banned
ReferrerUnavailable == 2 \notin DOMAIN users \/ users[2].is_banned

\* C11: while the referrer is missing or banned, a settlement that has read it is skipped:
\* it writes no balance, the referrer's balance stays what it was and no audit entry
\* exists; and no step of a settlement changes the referee's row.
C11_SkipKeepsReward ==
    /\ [](ReferrerUnavailable =>
            /\ transactions = <<>> /\ commission_history = <<>>
            /\ 2 \in DOMAIN users => users[2].balance = 0
            /\ \A p \in Procs : req[p].type \in CommissionTypes => req[p].pc # "record"
            /\ last.type \in CommissionTypes =>
                  (last.resp \in {"NotFound", "Banned", "Skipped", "UpstreamFailure"}
                   /\ last.delta = 0))
    /\ [][\A u \in DOMAIN users : SettlementStep(u) => users'[u] = users[u]]_vars

\* a settlement found its referrer missing or banned after the referee had been paid
C11_Witness ==
    /\ ReferrerUnavailable /\ last.type \in CommissionTypes
    /\ last.resp \in {"NotFound", "Banned", "Skipped"}
    /\ users[last.user_id].balance > 0

\* the step answers a reward commit of account 1 with success
RewardReply ==
    \E p \in Procs :
       /\ req[p].type \in {"watchAd", "spinResult", "claimTask"} /\ req[p].user_id = 1
       /\ req'[p].pc = "idle" /\ last'.resp = "ok" /\ last'.type = req[p].type

\* the step ends a settlement in a failure
SettlementFailure ==
    \E p \in Procs :
       /\ req[p].type \in CommissionTypes /\ req'[p].pc = "idle"
       /\ last'.resp = "UpstreamFailure"

\* C12: the step that answers a reward commit with success only sends the settlement off;
\* a settlement that fails leaves the users table as it is, sends nothing off again, and
\* no settlement step changes the row of the referee.
C12_FireAndForget ==
    /\ [][RewardReply => Len(calls') = Len(calls) + 1]_vars
    /\ [][SettlementFailure => (users' = users /\ calls' = calls)]_vars
    /\ [][\A u \in DOMAIN users : SettlementStep(u) => users'[u].balance = users[u].balance]_vars

\* a settlement failed after the referee had been paid and answered
C12_Witness ==
    /\ last.type \in CommissionTypes /\ last.resp = "UpstreamFailure"
    /\ users[last.user_id].balance > 0 /\ calls = <<>>

\* the action tokens held for user u
TokensOf(u) ==
    {id \in DOMAIN actionIdStore : actionIdStore[id].user_id = u}
        \cup {id \in DOMAIN action_tokens : action_tokens[id].user_id = u}

\* C16: no step changes the row of a banned account, and none issues a token for it.
C16_BannedFrozen ==
    [][\A u \in DOMAIN users :
          users[u].is_banned => (users'[u] = users[u] /\ TokensOf(u)' \subseteq TokensOf(u))]_vars

\* C19: a request without a valid initData is rejected and writes no balance.  The
\* rejection is Unauthenticated; a request of type 'commission' may instead be turned
\* down by its handler, as src/api/index.js does with 403.  (processCommission is a call,
\* not a request.)
C19_Unauthenticated ==
    /\ \A p \in Procs :
          (req[p].pc # "idle" /\ req[p].type # "processCommission"
             /\ ~validateInitData(req[p].initData)) => req[p].delta = 0
    /\ (last.type \notin {"idle", "processCommission"} /\ ~validateInitData(last.initData)) =>
          /\ last.delta = 0
          /\ \/ last.resp = "Unauthenticated"
             \/ last.type = "commission" /\ last.resp = "Forbidden"


\* the registry holds id, and the entry is older than the validity window
Outdated(id) ==
    \/ id \in DOMAIN actionIdStore
          /\ now - actionIdStore[id].timestamp > ACTION_ID_EXPIRY_MS
    \/ id \in DOMAIN action_tokens
          /\ now - action_tokens[id].created_at > ACTION_ID_EXPIRY_MS

\* C21: a token that no commit presents and that is older than the validity window is
\* eventually gone from the registry.
C21_Reclaimed == \A id \in 1..MaxTokens : Outdated(id) ~> (id \notin Tokens)

\* the accounts that hold a completion row for task t
CreditedUsers(t) ==
    {user_tasks[i].user_id : i \in {j \in 1..Len(user_tasks) : user_tasks[j].task_id = t}}

\* C22: for every task, the accounts holding a completion row are no more than max_users,
\* and neither is the stored current_users.
C22_Capacity ==
    \A t \in DOMAIN tasks :
       /\ Cardinality(CreditedUsers(t)) <= tasks[t].max_users
       /\ tasks[t].current_users <= tasks[t].max_users

\* the step is a token validation that turns a commit down
ValidationRejects ==
    \/ /\ rev = "p0" /\ started' = started + 1 /\ req' = req
       /\ last'.type \in CommitTypes /\ last'.resp \in RejectedToken
    \/ \E p \in Procs :
          /\ rev = "api" /\ req[p].type \in CommitTypes /\ req[p].pc = "token"
          /\ req'[p].pc = "idle" /\ last'.resp \in RejectedToken

\* the owner of the registry entry id
Owner(id) ==
    IF id \in DOMAIN actionIdStore THEN actionIdStore[id].user_id
    ELSE action_tokens[id].user_id

\* C23: a token validation that finds no entry, or one of another user or kind, turns the
\* commit down and leaves the registry as it was.
C23_MismatchKeepsToken ==
    [][(ValidationRejects /\ last'.token = "none") =>
          (actionIdStore' = actionIdStore /\ action_tokens' = action_tokens)]_vars

\* a commit presented the token of another user, was turned down, and the token is still
\* in the registry
C23_Witness ==
    /\ last.type \in CommitTypes /\ last.token = "none"
    /\ last.resp = "InvalidOrExpiredToken"
    /\ last.action_id \in Tokens /\ Owner(last.action_id) # last.user_id

\* the validation of the step found an entry older than the validity window: in the Map
\* (part_000), or among the rows its handler had read (api)
FoundStale ==
    \/ rev = "p0" /\ Outdated(last'.action_id)
    \/ \E p \in Procs :
          /\ rev = "api" /\ req[p].pc = "token" /\ req'[p].pc = "idle"
          /\ req[p].rows # <<>>
          /\ now - req[p].rows[1].created_at > ACTION_ID_EXPIRY_MS

\* C24: a token validation that finds an entry older than the validity window leaves the
\* registry without it, whatever made the validation fail.
C24_StaleRemoved ==
    [][(ValidationRejects /\ FoundStale) =>
          last'.action_id \notin (DOMAIN actionIdStore' \cup DOMAIN action_tokens')]_vars

\* a quota kind is to be reset: its lockout timestamp is set, its counter is at or above
\* the maximum, and more than the reset interval lies between the timestamp and t
ResetDue(counter, lockout, max, t) ==
    lockout # Null /\ counter >= max /\ t - lockout > RESET_INTERVAL_MS

\* C25: resetDailyLimitsIfExpired, applied to the row it read at time resetNow, sets a
\* kind's counter to 0 and its lockout timestamp to null if the kind is to be reset, and
\* otherwise leaves both as they are; it leaves the balance and last_activity as they are.
C25_ResetIff ==
    [][\A p \in Procs :
          (req[p].type = "getUserData" /\ req[p].pc = "reset" /\ req'[p].pc = "finish"
             /\ req[p].limits # <<>>) =>
          LET u == req[p].user_id
              row == req[p].limits[1]
              t == req[p].resetNow
          IN  /\ IF ResetDue(row.ads_watched_today, row.ads_limit_reached_at,
                             DAILY_MAX_ADS, t)
                 THEN /\ users'[u].ads_watched_today = 0
                      /\ users'[u].ads_limit_reached_at = Null
                 ELSE /\ users'[u].ads_watched_today = users[u].ads_watched_today
                      /\ users'[u].ads_limit_reached_at = users[u].ads_limit_reached_at
              /\ IF ResetDue(row.spins_today, row.spins_limit_reached_at,
                             DAILY_MAX_SPINS, t)
                 THEN /\ users'[u].spins_today = 0
                      /\ users'[u].spins_limit_reached_at = Null
                 ELSE /\ users'[u].spins_today = users[u].spins_today
                      /\ users'[u].spins_limit_reached_at = users[u].spins_limit_reached_at
              /\ users'[u].balance = users[u].balance
              /\ users'[u].last_activity = users[u].last_activity]_vars

\* the ads were reset while the spins, at their maximum, were not
C25_Witness ==
    \E p \in Procs :
       /\ req[p].type = "getUserData" /\ req[p].pc = "finish"
       /\ req[p].reset = {"ads"} /\ req[p].spinsRead >= DAILY_MAX_SPINS
       /\ users[req[p].user_id].spins_today >= DAILY_MAX_SPINS

\* C26: in src/api/index.js, for each quota kind of each account, the lockout timestamp is
\* set exactly when the counter is at its maximum.
C26_LockoutIffMax ==
    rev = "api" =>
        \A u \in DOMAIN users :
           /\ users[u].spins_limit_reached_at # Null <=> users[u].spins_today >= DAILY_MAX_SPINS
           /\ users[u].ads_limit_reached_at # Null <=>
                 users[u].ads_watched_today >= DAILY_MAX_ADS

\* the step answers a spinResult of src/api/index.js with "daily spin limit reached"
SpinQuotaExceeded(p) ==
    /\ rev = "api" /\ req[p].type = "spinResult" /\ req[p].pc = "checks"
    /\ req'[p].pc = "idle" /\ last'.resp = "QuotaExceeded"

\* C27: a spin commit with a freshly prepared token is not turned down for the quota once
\* more than the reset interval has passed since the lockout timestamp of its account.
C27_QuotaRecovery ==
    [][\A p \in Procs :
          SpinQuotaExceeded(p) =>
             LET lockout == users[req[p].user_id].spins_limit_reached_at
             IN  ~(lockout # Null /\ req[p].arrival - lockout > RESET_INTERVAL_MS)]_vars

\* C28: a request whose cooldown read failed is answered with an error, is handed no token
\* and writes no balance.
C28_RateReadFailure ==
    /\ \A p \in Procs : req[p].rateError => (req[p].action_id = 0 /\ req[p].delta = 0)
    /\ last.rateError =>
          (last.resp = "UpstreamFailure" /\ last.action_id = 0 /\ last.delta = 0)

\* the audit entries written for referrer ref: rows of transactions (part_000) and of
\* commission_history (api)
AuditEntries(ref) ==
    SelectSeq(transactions, LAMBDA e : e.type = "commission" /\ e.user_id = ref)
        \o SelectSeq(commission_history, LAMBDA e : e.referrer_id = ref)

RECURSIVE SumAmounts(_)
SumAmounts(s) == IF s = <<>> THEN 0 ELSE s[1].amount + SumAmounts(Tail(s))

\* C29: when nothing is under way, the audit entries of the referrer add up to the
\* commission credited to it.  (Account 2 starts the referral scenario with a balance of 0
\* and is credited nothing but commissions.)
C29_AuditMatchesCredit ==
    Quiescent => SumAmounts(AuditEntries(2)) = ledger[2]

\* the referrer an account's row names
Referrer(row) == IF rev = "p0" THEN row.referral_id ELSE row.ref_by

\* the step answers a reward commit of frame p with success
RewardCommit(p) ==
    /\ req[p].type \in {"watchAd", "spinResult", "completeTask", "claimTask"}
    /\ req[p].pc # "idle" /\ req'[p].pc = "idle"
    /\ last'.resp = "ok" /\ last'.type = req[p].type

\* C30: the step that answers a reward commit of an account with a referrer with success
\* sends off one commission settlement for that account, and no other step sends one off.
C30_OneSettlement ==
    /\ [][\A p \in Procs :
            (RewardCommit(p) /\ Referrer(users[req[p].user_id]) # Null) =>
               /\ Len(calls') = Len(calls) + 1
               /\ calls'[Len(calls')].user_id = req[p].user_id]_vars
    /\ [][(\A p \in Procs : ~RewardCommit(p)) => Len(calls') <= Len(calls)]_vars
\* the step is taken by the task claim in frame p
ClaimStep(p) == req[p].type \in ClaimTypes /\ req'[p] # req[p]

\* C31: a task claim writes in the order counter, completion record, balance: the step
\* that increments the task's counter belongs to a claim that found no completion record,
\* read a task with room left and was not turned down by the membership call; the step
\* that creates the completion record belongs to a claim that has written the counter; the
\* step that credits the balance belongs to a claim that has written the counter and whose
\* completion record exists.
C31_ClaimOrder ==
    [][\A p \in Procs : ClaimStep(p) =>
          /\ tasks' # tasks =>
                /\ ~req[p].done /\ req[p].taskRows # <<>>
                /\ req[p].taskRows[1].current_users < req[p].taskRows[1].max_users
                /\ req'[p].oracle \in {"", "member"}
          /\ user_tasks' # user_tasks => req[p].wrote > 0
          /\ users' # users =>
                /\ req[p].wrote > 0
                /\ Records(req[p].user_id, req[p].task_id) >= 1]_vars

\* the withdrawal records of both revisions, oldest first
WithdrawalRows == withdrawals \o withdrawal_requests

\* C32: the step that creates a withdrawal record is taken by a withdraw request whose
\* balance write has gone through, and the record names that request's user and amount; a
\* withdraw request whose balance write failed is answered without any record being
\* created.
C32_RecordAfterDebit ==
    /\ [][WithdrawalRows' # WithdrawalRows =>
            \E p \in Procs :
               /\ req[p].type = "withdraw" /\ req[p].pc = "record" /\ req'[p].pc = "idle"
               /\ req[p].delta = 0 - req[p].amount /\ paid[req[p].action_id] >= 1
               /\ WithdrawalRows' = Append(WithdrawalRows,
                                           [user_id |-> req[p].user_id,
                                            amount |-> req[p].amount,
                                            status |-> IF rev = "p0" THEN "requested"
                                                       ELSE "pending"])]_vars
    /\ [][(\E p \in Procs : /\ req[p].type = "withdraw" /\ req[p].pc = "checks"
                             /\ req'[p].pc = "idle") =>
             WithdrawalRows' = WithdrawalRows]_vars

\* the balance write of a withdraw request failed after another withdrawal had been filed
C32_Witness ==
    /\ last.type = "withdraw" /\ last.resp = "UpstreamFailure" /\ last.delta = 0
    /\ last.balanceRead # NotRead /\ Len(WithdrawalRows) = 1

\* C33: a claim (ad, spin, task, withdrawal) that is answered with an error has written
\* no balance: a claim whose balance write went through is answered with success,
\* whatever happens to its later steps.
C33_RejectBeforeMutation ==
    (last.type \in CommitTypes \cup ClaimTypes /\ last.resp # "ok") => last.delta = 0

\* C34: a commit (watchAd, spinResult, withdraw) answered with success presented an id
\* that a prepare request had handed out, the registry held that id for the commit's own
\* user and kind inside its validity window, and no other commit carrying the id has
\* written a balance.
C34_PrepareBeforeCommit ==
    (last.type \in CommitTypes /\ last.resp = "ok") =>
        /\ last.action_id \in 1..(nextId - 1)
        /\ last.token = "fresh" /\ last.tokenOk
        /\ paid[last.action_id] = 1

\* C35: the stored balance of every account is at least zero.
C35_NonNegative == \A u \in DOMAIN users : users[u].balance >= 0

\* C36: no account names itself as its referrer, and no commission settlement credits the
\* account whose reward it settles.
C36_NoSelfReferral ==
    /\ \A u \in DOMAIN users : Referrer(users[u]) # u
    /\ \A p \in Procs :
          (req[p].type \in CommissionTypes /\ req[p].pc # "idle") =>
              req[p].referral_id # req[p].user_id

\* What account u has ever been credited in a run of the withdrawal scenario, in which no
\* reward is committed and no commission settled: the rewards its counters account for.
Credited(u) ==
    Units(REWARD_PER_AD * Ads(users[u])
          + (IF rev = "p0" THEN P0_SPIN_SECTORS[1] ELSE SPIN_SECTORS[1]) * Spins(users[u]))

\* the withdrawal records of account u
WithdrawalsOf(u) == SelectSeq(WithdrawalRows, LAMBDA w : w.user_id = u)

\* C37: the amounts of an account's withdrawal records add up to no more than the account
\* has ever been credited.
C37_WithdrawConservation ==
    \A u \in DOMAIN users : SumAmounts(WithdrawalsOf(u)) <= Credited(u)

\* the step is taken by a request of account u itself (a commission settlement is run for
\* the referee, not for the account it credits)
OwnStep(u) ==
    \E p \in Procs :
       /\ req[p].type \notin CommissionTypes \cup {"idle"} /\ req[p].user_id = u
       /\ req'[p] # req[p]

\* C38: a step that changes the last-activity timestamp of an account is a step of a
\* request of that account.
C38_OwnActivity ==
    [][\A u \in DOMAIN users :
          (u \in DOMAIN users' /\ users'[u].last_activity # users[u].last_activity) =>
              OwnStep(u)]_vars

\* the Map entry of id is inside its validity window
Live(id) == now - actionIdStore[id].timestamp <= ACTION_ID_EXPIRY_MS

\* C39: the step in which a cleanup timer fires leaves every entry of the Map that is
\* inside its validity window in place, as it is.
C39_CleanupKeepsLive ==
    [][(timers' # timers /\ timers' \subseteq timers) =>
          \A id \in DOMAIN actionIdStore :
             Live(id) => (id \in DOMAIN actionIdStore' /\ actionIdStore'[id] = actionIdStore[id])]_vars

\* no commit has been received, the cleanup has removed the first token, and the second,
\* issued later, is inside its window and still held
C39_Witness ==
    /\ rev = "p0" /\ started = 0 /\ nextId = 3
    /\ 1 \notin DOMAIN actionIdStore
    /\ 2 \in DOMAIN actionIdStore /\ Live(2)

====
